---- MODULE Spec2Model ----
(***************************************************************************)
(* Model of the EVM batch processor: EvmBatchProcessor.run/process         *)
(* (src/src/processor.ts), the ingest pipeline Ingest (src/src/ingest.ts), *)
(* the archive client ArchiveClient with statusToHeight (src/archive.ts),  *)
(* and the decoding of a block of a response, mapGatewayBlock.             *)
(* Spec is the processor with its pipeline, RetrySpec is one archive       *)
(* client serving requests, DecodeSpec is the decoding of one block,       *)
(* MergeSpec is PlainBatchRequest.merge applied to requests and PlanSpec   *)
(* is createBatches applied to the registrations of a processor, SortSpec  *)
(* is the flattening and sorting of the blocks of a response, ConfigSpec   *)
(* is the configuration calls of a processor around run(), and LiveSpec    *)
(* is Spec for a run in which nothing fails, with fairness.                *)
(*                                                                         *)
(* The program runs on one JavaScript event loop.  A step of the model is  *)
(* the code that runs between two suspension points that wait for the      *)
(* outside world (an HTTP response, a timer, a database call).  Promise    *)
(* reactions that need no outside event run in the same step as the event  *)
(* that settled the promise.                                               *)
(***************************************************************************)
EXTENDS Integers, Sequences, FiniteSets, TLC

\* ------------------------------------------------------------------ bounds
MaxHeight == 3      \* block heights of the model are 0..MaxHeight
MaxFetches == 3     \* the archive answers at most this many block queries
MaxDbMin == 1       \* dbMinBlockNumber of a status is 0..MaxDbMin
MaxStart == 1       \* db.connect() returns -1..MaxStart
MaxRetries == 7     \* an archive request is retried at most this many times
MaxRequests == 2    \* the archive client serves at most this many requests
MaxTxIndex == 1     \* transaction indexes of a block are 0..MaxTxIndex
MaxLogIndex == 1    \* log indexes of a block are 0..MaxLogIndex
MaxLogs == 3        \* a block of the archive lists at most this many logs
MaxClauses == 1     \* a request being merged has at most this many clauses
                    \* of a kind
MaxAdded == 2       \* a processor being planned has at most this many
                    \* registrations
MaxBlocks == 3      \* a response being sorted has at most this many blocks

\* JavaScript's Infinity and undefined, as integers outside the heights
Infinity == MaxHeight + 100
Undefined == 0 - Infinity

\* a queue with one more slot
maxQueueSizePlusOne == 3 + 1

maxQueueSize == 3

Max(a, b) == IF a >= b THEN a ELSE b
Min(a, b) == IF a <= b THEN a ELSE b

Heights == 0..MaxHeight

\* --------------------------------------------------------------- util/range
rangeEnd(range) == IF range.to = Undefined THEN Infinity ELSE range.to

\* intersection of two ranges; from > rangeEnd marks the empty result
rangeIntersection(a, b) ==
    LET f == Max(a.from, b.from)
        e == Min(rangeEnd(a), rangeEnd(b))
    IN  [from |-> f, to |-> IF e = Infinity THEN Undefined ELSE e]

isEmptyRange(r) == r.from > rangeEnd(r)

\* ------------------------------------------------------------ batch/request
EmptyRequest == [logs |-> <<>>, transactions |-> <<>>]

\* PlainBatchRequest.merge: the result is a new request that takes the logs
\* of both operands; result.transactions keeps its initial value []
merge(this, other) ==
    [logs |-> this.logs \o other.logs, transactions |-> <<>>]

\* ------------------------------------------------------------ batch/generic
\* indices of the registrations whose range covers height h, in
\* registration order (height MaxHeight + 1 stands for every height beyond
\* the model's heights: only open-ended ranges cover it)
RECURSIVE coverOf(_, _, _)
coverOf(bs, h, i) ==
    IF i > Len(bs) THEN <<>>
    ELSE (IF bs[i].range.from <= h /\ (h <= rangeEnd(bs[i].range))
          THEN <<i>> ELSE <<>>) \o coverOf(bs, h, i + 1)

RECURSIVE mergeAll(_, _, _)
mergeAll(bs, idx, k) ==
    IF k = Len(idx) THEN bs[idx[k]].request
    ELSE merge(bs[idx[k]].request, mergeAll(bs, idx, k + 1))

\* sweep over the heights: a segment is a maximal run of heights covered by
\* the same non-empty list of registrations
RECURSIVE sweep(_, _, _, _)
sweep(bs, h, start, acc) ==
    LET c == coverOf(bs, start, 1)
        seg(to) == IF c = <<>> THEN <<>>
                   ELSE <<[range |-> [from |-> start, to |-> to],
                           request |-> mergeAll(bs, c, 1)]>>
    IN  IF h > MaxHeight + 1
        THEN acc \o seg(Undefined)
        ELSE IF coverOf(bs, h, 1) = c
             THEN sweep(bs, h + 1, start, acc)
             ELSE sweep(bs, h + 1, h, acc \o seg(h - 1))

mergeBatches(bs) == IF Len(bs) = 0 THEN <<>> ELSE sweep(bs, 1, 0, <<>>)

RECURSIVE applyRangeBound(_, _)
applyRangeBound(bs, bound) ==
    IF bs = <<>> THEN <<>>
    ELSE LET r == rangeIntersection(Head(bs).range, bound)
         IN  (IF isEmptyRange(r) THEN <<>>
              ELSE <<[range |-> r, request |-> Head(bs).request]>>)
             \o applyRangeBound(Tail(bs), bound)

\* ------------------------------------------------------------------ archive
\* a height that keeps 0
statusToHeightRaw(status) ==
    IF status.parquetBlockNumber > status.dbMinBlockNumber
    THEN status.dbMaxBlockNumber
    ELSE status.parquetBlockNumber

statusToHeight(status) ==
    LET height == IF status.parquetBlockNumber > status.dbMinBlockNumber
                  THEN status.dbMaxBlockNumber
                  ELSE status.parquetBlockNumber
    IN  IF height = 0 THEN -1 ELSE height

\* the status responses of the model: parquetBlockNumber on either side of
\* dbMinBlockNumber, any dbMaxBlockNumber
Statuses ==
    [parquetBlockNumber : 0..1, dbMaxBlockNumber : Heights,
     dbMinBlockNumber : 0..MaxDbMin]

ZeroStatus ==
    [parquetBlockNumber |-> 0, dbMaxBlockNumber |-> 0, dbMinBlockNumber |-> 0]

\* ----------------------------------------------------------- archive client
\* the status responses an archive request can return
AllStatuses ==
    [parquetBlockNumber : Heights, dbMaxBlockNumber : Heights,
     dbMinBlockNumber : Heights]

\* a height that keeps 0, for getHeight
getHeightRaw(status) == statusToHeightRaw(status)

\* ArchiveClient.getHeight: getStatus().then(statusToHeight)
getHeight(status) == statusToHeight(status)

\* what one call of fetch() meets: a transport error of node-fetch
\* (FetchError with a type; requestTo says whether the message of a system
\* error starts with 'request to'), or an HTTP response with a status, a
\* body that is or is not JSON, and a top-level errors array of some length
TransportErrors ==
    [kind : {"FetchError"}, type : {"request-timeout", "body-timeout"},
     requestTo : {FALSE}, status : {0}, jsonOk : {FALSE}, errors : {0},
     value : {ZeroStatus}]
    \cup [kind : {"FetchError"}, type : {"system"}, requestTo : BOOLEAN,
          status : {0}, jsonOk : {FALSE}, errors : {0}, value : {ZeroStatus}]

HttpErrorStatuses == {400, 404, 429, 500, 502, 503}

HttpResponses ==
    [kind : {"http"}, type : {"none"}, requestTo : {FALSE},
     status : HttpErrorStatuses, jsonOk : {FALSE}, errors : {0},
     value : {ZeroStatus}]
    \cup [kind : {"http"}, type : {"none"}, requestTo : {FALSE},
          status : {200}, jsonOk : {FALSE}, errors : {0}, value : {ZeroStatus}]
    \cup [kind : {"http"}, type : {"none"}, requestTo : {FALSE},
          status : {200}, jsonOk : {TRUE}, errors : {1}, value : {ZeroStatus}]
    \cup [kind : {"http"}, type : {"none"}, requestTo : {FALSE},
          status : {200}, jsonOk : {TRUE}, errors : {0}, value : AllStatuses]

Attempts == TransportErrors \cup HttpResponses

NoAttempt ==
    [kind |-> "none", type |-> "none", requestTo |-> FALSE, status |-> 0,
     jsonOk |-> FALSE, errors |-> 0, value |-> ZeroStatus]

\* a result of performFetch: the decoded body, or an Error of some class
Result(class, a) ==
    [class |-> class, status |-> a.status, type |-> a.type,
     requestTo |-> a.requestTo, value |-> a.value]

NoResult == Result("none", NoAttempt)

\* performFetch, with its rejection turned into a value by the catch of
\* request(); response.ok is a status of 200..299, response.json() of a
\* body that is not JSON rejects with a FetchError of type invalid-json
performFetch(a) ==
    IF a.kind = "FetchError" THEN Result("FetchError", a)
    ELSE IF ~(200 <= a.status /\ a.status <= 299)
         THEN Result("HttpError", a)
    ELSE IF ~a.jsonOk
         THEN Result("FetchError", [a EXCEPT !.type = "invalid-json"])
    ELSE IF a.errors > 0 THEN Result("ArchiveResponseError", a)
    ELSE Result("value", a)

\* a classification that retries every server error
isRetryableErrorAny5xx(err) ==
    \/ err.class = "HttpError" /\ (err.status = 429 \/ err.status >= 500)
    \/ err.class = "FetchError" /\
          \/ err.type \in {"body-timeout", "request-timeout"}
          \/ err.type = "system" /\ err.requestTo

isRetryableError(err) ==
    IF err.class = "HttpError" THEN err.status \in {429, 502, 503}
    ELSE IF err.class = "FetchError"
         THEN IF err.type \in {"body-timeout", "request-timeout"} THEN TRUE
              ELSE IF err.type = "system" THEN err.requestTo
              ELSE FALSE
    ELSE FALSE

isError(result) ==
    result.class \in {"HttpError", "FetchError", "ArchiveResponseError"}

\* request(): the backoff schedule, in ms
backoff == <<100, 500, 2000, 5000, 10000, 20000>>

\* a timeout taken at the count of errors after its increment
backoffAtPostIncrement(errors) ==
    backoff[Min(errors + 1, Len(backoff) - 1) + 1]

\* request(): backoff[Math.min(errors, backoff.length - 1)]
backoffAt(errors) == backoff[Min(errors, Len(backoff) - 1) + 1]

\* a loop that gives up once the backoff schedule is used up
mustRetryBounded(result, errors) ==
    isRetryableError(result) /\ errors < Len(backoff)

\* request(): while (true) { ... if (isRetryableError(result)) ... }: the
\* loop goes round again whatever the count of errors is
mustRetry(result, errors) == isRetryableError(result)

\* an observer that is called twice
onRetryTwice(calls, errors, timeout) ==
    calls \o <<[errorsInRow |-> errors, backoff |-> timeout],
               [errorsInRow |-> errors, backoff |-> timeout]>>

\* request(): this.options.onRetry?.(result, body, errors, timeout); the
\* calls are kept as a list of (errors, timeout)
onRetry(calls, errors, timeout) ==
    Append(calls, [errorsInRow |-> errors, backoff |-> timeout])

\* body of a request: the query of a POST, undefined for a GET
bodyOf(method) == IF method = "POST" THEN "query" ELSE "undefined"

NewClient ==
    [pc |-> "idle", method |-> "GET", errors |-> 0, timeout |-> 0,
     attempts |-> 0, result |-> NoResult, requests |-> 0]

NoRetry == [err |-> NoResult, query |-> "undefined"]

NotSettled == [kind |-> "none", result |-> NoResult, height |-> -1]

\* ---------------------------------------------------------- mapGatewayBlock
\* gw.Log and gw.Transaction, by the fields the items are made of; a
\* transaction that creates a contract has no `to`
Absent == "undefined"

GatewayLogs ==
    [transactionIndex : 0..MaxTxIndex, index : 0..MaxLogIndex,
     address : {"0xc", "0xd"}]

GatewayTransactions ==
    [index : 0..MaxTxIndex, from : {"0xa"}, to : {"0xb", Absent}]

\* lists without repetition of at most n elements of S
Listings(S, n) ==
    {l \in UNION {[1..k -> S] : k \in 0..n} :
        \A i, j \in 1..Len(l) : l[i] = l[j] => i = j}

\* gw.BatchBlock: the logs and transactions as the archive lists them; a
\* block has one log for a pair (transactionIndex, index) and one
\* transaction for an index
GatewayBlocks ==
    [logs : {l \in Listings(GatewayLogs, MaxLogs) :
                \A i, j \in 1..Len(l) :
                   (/\ l[i].transactionIndex = l[j].transactionIndex
                    /\ l[i].index = l[j].index) => i = j},
     transactions : {l \in Listings(GatewayTransactions, MaxTxIndex + 1) :
                        \A i, j \in 1..Len(l) :
                           l[i].index = l[j].index => i = j}]

\* createObjects followed by Map.get(index): m.set(obj.index, obj) keeps,
\* for an index, the object made of the last element that has it
mapGet(src, index) ==
    LET at == {i \in 1..Len(src) : src[i].index = index}
    IN  src[CHOOSE i \in at : \A j \in at : j <= i]

\* transactions.get(index): the index of the transaction found, -1 for
\* undefined
joinedTransaction(block, index) ==
    IF \E i \in 1..Len(block.transactions) :
          block.transactions[i].index = index
    THEN index ELSE -1

\* the item pushed for a log of the block: the EvmLog found by go.index,
\* with the transaction that the loop has assigned to that object when it
\* ends (the one of the last log listed with this index)
logItem(block, go) ==
    LET evmLog == mapGet(block.logs, go.index)
    IN  [kind |-> "evmLog", transactionIndex |-> evmLog.transactionIndex,
         index |-> evmLog.index, address |-> evmLog.address,
         transaction |-> joinedTransaction(block, evmLog.transactionIndex)]

\* the item pushed for a transaction of the block
transactionItem(block, go) ==
    LET transaction == mapGet(block.transactions, go.index)
    IN  [kind |-> "transaction", transactionIndex |-> -1,
         index |-> transaction.index, address |-> transaction.from,
         transaction |-> transaction.index]

\* the items before the sort: the logs, then the transactions
pushedItems(block) ==
    [i \in 1..Len(block.logs) |-> logItem(block, block.logs[i])]
    \o [i \in 1..Len(block.transactions) |->
           transactionItem(block, block.transactions[i])]

\* the comparator passed to items.sort
compareItems(a, b) ==
    IF a.kind = "evmLog" /\ b.kind = "evmLog"
    THEN a.transactionIndex + a.index - b.transactionIndex - b.index
    ELSE IF a.kind = "transaction" /\ b.kind = "transaction"
         THEN a.index - b.index
    ELSE IF a.kind = "evmLog" /\ b.kind = "transaction"
         THEN a.transactionIndex - b.index
    ELSE IF a.kind = "transaction" /\ b.kind = "evmLog"
         THEN a.index - b.transactionIndex
    ELSE 0

\* Array.prototype.sort as the engine of Node runs it on an array of fewer
\* than 64 elements: the run at the start of the array is found (and
\* reversed if it descends), then each further element is placed by a binary
\* search of the sorted part.
\* end of the run that starts the array
RECURSIVE runEnd(_, _, _)
runEnd(a, idx, descending) ==
    IF idx > Len(a) THEN idx - 1
    ELSE LET order == compareItems(a[idx], a[idx - 1])
         IN  IF (descending /\ order >= 0) \/ (~descending /\ order < 0)
             THEN idx - 1
             ELSE runEnd(a, idx + 1, descending)

reverse(a) == [i \in 1..Len(a) |-> a[Len(a) + 1 - i]]

\* place of the pivot among a[left..right-1]
RECURSIVE insertionPoint(_, _, _, _)
insertionPoint(a, pivot, left, right) ==
    IF ~(left < right) THEN left
    ELSE LET mid == left + ((right - left) \div 2)
         IN  IF compareItems(pivot, a[mid]) < 0
             THEN insertionPoint(a, pivot, left, mid)
             ELSE insertionPoint(a, pivot, mid + 1, right)

RECURSIVE binaryInsertionSort(_, _)
binaryInsertionSort(a, start) ==
    IF start > Len(a) THEN a
    ELSE LET pivot == a[start]
             at == insertionPoint(a, pivot, 1, start)
         IN  binaryInsertionSort(
                 SubSeq(a, 1, at - 1) \o <<pivot>> \o SubSeq(a, at, start - 1)
                     \o SubSeq(a, start + 1, Len(a)),
                 start + 1)

arraySort(a) ==
    IF Len(a) < 2 THEN a
    ELSE LET descending == compareItems(a[2], a[1]) < 0
             n == runEnd(a, 3, descending)
             run == SubSeq(a, 1, n)
             rest == SubSeq(a, n + 1, Len(a))
         IN  binaryInsertionSort(
                 (IF descending THEN reverse(run) ELSE run) \o rest, n + 1)

\* mapGatewayBlock: the items of the decoded block
mapGatewayBlock(block) == arraySort(pushedItems(block))

NoBlock == [logs |-> <<>>, transactions |-> <<>>]

\* ---------------------------------------------------------------- processor
\* a plan that is not cut to the range to process
createBatchesUnbounded(bs, bound) == mergeBatches(bs)

\* EvmBatchProcessor.createBatches
createBatches(bs, bound) == applyRangeBound(mergeBatches(bs), bound)

\* EvmBatchProcessor.getWholeBlockRange: options.blockRange || {from: 0}
getWholeBlockRange(optRange) ==
    IF optRange = <<>> THEN [from |-> 0, to |-> Undefined] ELSE optRange[1]

\* a range that ignores the height the database reports
effectiveRangeUnclamped(blockRange, heightAtStart) ==
    [from |-> blockRange.from, to |-> blockRange.to]

\* run(): the range that bounds the plan, given the height the database
\* reports
effectiveRange(blockRange, heightAtStart) ==
    [from |-> Max(heightAtStart + 1, blockRange.from), to |-> blockRange.to]

\* run(): the test for 'nothing to do'
nothingToDo(blockRange, heightAtStart) ==
    blockRange.to # Undefined /\ blockRange.to < heightAtStart + 1

\* process(): a transaction is opened only for a batch with blocks
needsTransaction(blocks) == Len(blocks) # 0

\* a span that ends at the first block
transactSpanFirstOnly(blocks) == [from |-> blocks[1], to |-> blocks[1]]

\* process(): the arguments from, to of db.transact
transactSpan(blocks) == [from |-> blocks[1], to |-> blocks[Len(blocks)]]

\* the checkpoint taken from the start of the range
advanceHeightFrom(batch) == batch.range.from

\* process(): the height passed to db.advance
advanceHeight(batch) == batch.range.to

\* a rejection of db.transact that is swallowed
afterTransactSwallow(ok) == "advance"

\* process(): `await db.transact(...)` goes on to db.advance, or throws
afterTransact(ok) == IF ok THEN "advance" ELSE "failed"

\* ------------------------------------------------------------------- ingest
\* a height that is overwritten
setArchiveHeightOverwrite(archiveHeightNow, height) == height

\* Ingest.setArchiveHeight
setArchiveHeight(archiveHeightNow, height) == Max(archiveHeightNow, height)

\* a wait that ends only above the minimum
heightReachedStrict(archiveHeightNow, minimumHeight) ==
    archiveHeightNow > minimumHeight

\* Ingest.waitForHeight: the test that ends the wait
heightReached(archiveHeightNow, minimumHeight) ==
    ~(archiveHeightNow < minimumHeight)

\* a query up to the observed height, whatever the end of the range
buildBatchQueryToHeight(batch, height) ==
    LET from == batch.range.from
        to == height
    IN  [ok |-> from <= to, fromBlock |-> from, toBlock |-> to,
         logs |-> batch.request.logs]

\* Ingest.buildBatchQuery: ok is the assertion from <= to
buildBatchQuery(batch, height) ==
    LET from == batch.range.from
        to == Min(height, rangeEnd(batch.range))
    IN  [ok |-> from <= to, fromBlock |-> from, toBlock |-> to,
         logs |-> batch.request.logs]

\* response.data.flat()
RECURSIVE flat(_)
flat(data) == IF data = <<>> THEN <<>> ELSE Head(data) \o flat(Tail(data))

\* the blocks in the order of the response
sortByHeightNone(blocks) == blocks

\* Array.sort by header.height (blocks are modelled by their height)
RECURSIVE insertByHeight(_, _)
insertByHeight(sorted, h) ==
    IF sorted = <<>> THEN <<h>>
    ELSE IF h < Head(sorted) THEN <<h>> \o sorted
         ELSE <<Head(sorted)>> \o insertByHeight(Tail(sorted), h)

RECURSIVE sortByHeight(_)
sortByHeight(blocks) ==
    IF blocks = <<>> THEN <<>>
    ELSE insertByHeight(sortByHeight(Tail(blocks)), Head(blocks))

last(seq) == seq[Len(seq)]

\* blocks that are not checked
blocksUnchecked(batch, height, blocks) == TRUE

\* fetchLoop: the three assertions on the decoded blocks
blocksInBounds(batch, height, blocks) ==
    blocks # <<>> =>
        /\ batch.range.from <= blocks[1]
        /\ rangeEnd(batch.range) >= last(blocks)
        /\ height >= last(blocks)

\* a response that never completes its segment
isPartialAlways(batch, nextBlock) == TRUE

\* fetchLoop: is the head segment only partly covered by the response?
isPartial(batch, nextBlock) == nextBlock < rangeEnd(batch.range)

\* the upper end taken from nextBlock alone
emittedToNextBlock(batch, nextBlock) == nextBlock - 1

\* fetchLoop: upper end of the emitted batch range
emittedTo(batch, nextBlock) ==
    IF isPartial(batch, nextBlock) THEN nextBlock - 1 ELSE batch.range.to

\* a remainder that starts at the last covered height
planAfterOverlap(plan, batch, nextBlock) ==
    IF isPartial(batch, nextBlock)
    THEN [plan EXCEPT ![1] =
             [range |-> [from |-> nextBlock - 1, to |-> batch.range.to],
              request |-> batch.request]]
    ELSE Tail(plan)

\* fetchLoop: the plan after a response
planAfter(plan, batch, nextBlock) ==
    IF isPartial(batch, nextBlock)
    THEN [plan EXCEPT ![1] =
             [range |-> [from |-> (nextBlock - 1) + 1, to |-> batch.range.to],
              request |-> batch.request]]
    ELSE Tail(plan)

NoBatch ==
    [range |-> [from |-> 0, to |-> 0], request |-> EmptyRequest,
     blocks |-> <<>>, id |-> 0]

NoSegment == [range |-> [from |-> 0, to |-> 0], request |-> EmptyRequest]

NoQuery == [ok |-> FALSE, fromBlock |-> 0, toBlock |-> 0, logs |-> <<>>]

PendingSlot == [status |-> "pending", value |-> NoBatch]

\* index of the queue entry the driver is working on
pendingIndex(q) == CHOOSE i \in 1..Len(q) : q[i].status = "pending"

\* a rejection after which fetchLoop counts as stopped and the segment as done
rejectSlotAndGoOn(s) ==
    [s EXCEPT !.queue[pendingIndex(s.queue)] =
                  [status |-> "rejected",
                   value |-> [NoBatch EXCEPT !.range = s.fetchBatch.range]],
              !.batches = Tail(s.batches),
              !.fetchLoopIsStopped = TRUE,
              !.fetchPc = "idle"]

\* the promise of the current segment is rejected with ctx.batchRange
\* attached, and fetchLoop returns without resetting fetchLoopIsStopped
rejectSlot(s) ==
    [s EXCEPT !.queue[pendingIndex(s.queue)] =
                  [status |-> "rejected",
                   value |-> [NoBatch EXCEPT !.range = s.fetchBatch.range]],
              !.fetchPc = "dead"]

\* a loop that pushes the promise of a further segment without awaiting
\* the one it has just pushed
startQueryNoAwait(s, height) ==
    LET q == buildBatchQuery(s.fetchBatch, height)
    IN  IF ~q.ok THEN rejectSlot(s)
        ELSE [s EXCEPT !.fetchPc = "query", !.fetchHeight = height,
                       !.nQueries = s.nQueries + 1, !.lastQuery = q,
                       !.queue = IF Len(s.queue) < maxQueueSize
                                 THEN Append(s.queue, PendingSlot)
                                 ELSE s.queue]

\* the callback that runs when waitForHeight has returned `height`
startQuery(s, height) ==
    LET q == buildBatchQuery(s.fetchBatch, height)
    IN  IF ~q.ok THEN rejectSlot(s)
        ELSE [s EXCEPT !.fetchPc = "query", !.fetchHeight = height,
                       !.nQueries = s.nQueries + 1, !.lastQuery = q]

\* waitForHeight up to its first suspension
waitForHeight(s, height) ==
    IF heightReached(height, s.fetchBatch.range.from)
    THEN startQuery(s, height)
    ELSE [s EXCEPT !.fetchPc = "height"]

\* a loop that goes on while the plan has segments
loopHeadUnbounded(s, height) ==
    IF Len(s.batches) # 0
    THEN waitForHeight([s EXCEPT !.fetchBatch = s.batches[1],
                                 !.queue = Append(s.queue, PendingSlot)],
                       height)
    ELSE [s EXCEPT !.fetchLoopIsStopped = TRUE, !.fetchPc = "idle"]

\* head of the while loop of fetchLoop
loopHead(s, height) ==
    IF Len(s.batches) # 0 /\ Len(s.queue) < maxQueueSize
    THEN waitForHeight([s EXCEPT !.fetchBatch = s.batches[1],
                                 !.queue = Append(s.queue, PendingSlot)],
                       height)
    ELSE [s EXCEPT !.fetchLoopIsStopped = TRUE, !.fetchPc = "idle"]

\* a fetchLoop that is suspended before it has pushed a promise
fetchLoopDeferred(s, height) ==
    IF ~s.fetchLoopIsStopped
    THEN [s EXCEPT !.entryAssertFailed = TRUE]
    ELSE [s EXCEPT !.fetchLoopIsStopped = FALSE]

\* fetchLoop up to its first suspension: assert(this.fetchLoopIsStopped),
\* this.fetchLoopIsStopped = false, then the loop
fetchLoop(s, height) ==
    IF ~s.fetchLoopIsStopped
    THEN [s EXCEPT !.entryAssertFailed = TRUE]
    ELSE loopHead([s EXCEPT !.fetchLoopIsStopped = FALSE], height)

\* a getBlocks that starts fetchLoop at every pull
mustSpawnAlways(s) == TRUE

\* getBlocks: if (this.fetchLoopIsStopped)
mustSpawn(s) == s.fetchLoopIsStopped

\* ------------------------------------------------------------------- state
VARIABLES
    procBatches,        \* EvmBatchProcessor.batches
    optBlockRange,      \* EvmBatchProcessor.options.blockRange
    running,            \* EvmBatchProcessor.running
    lastBlock,          \* EvmBatchProcessor._lastBlock
    heightAtStart,      \* run(): result of db.connect()
    mainPc,             \* position of run()/process()
    genAtYield,         \* getBlocks is suspended at its yield
    curBatch,           \* process(): the batch of the current iteration
    ing,                \* the Ingest object and the position of fetchLoop
    archiveHeight,      \* Ingest.archiveHeight
    pushed,             \* batches the driver resolved into the queue
    yielded,            \* batches getBlocks yielded
    transacts,          \* calls of db.transact (each invokes the handler)
    advanced,           \* heights passed to db.advance
    failedIn,           \* where run() failed
    allZero,            \* every status request so far was answered by zeros
    lastResp,           \* the last accepted nextBlock, and whether the last
                        \* status reported less than the height known then
    client,             \* ArchiveClient.request: position and locals
    onRetryCalls,       \* calls of options.onRetry during the request
    lastRetry,          \* err and query of the last call of options.onRetry
    settled,            \* how request() settled, and getHeight()'s result
    gatewayBlock,       \* a block of a query response
    blockData,          \* tryMapGatewayBlock: whether it ran, and the items
    operands,           \* three requests a, b, c given to merge
    merged,             \* whether merge ran, and what it returned
    planBound,          \* the argument blockRange of createBatches
    planned,            \* whether createBatches ran, and its result
    responseData,       \* response.data: chunks of blocks (their heights)
    sorted,             \* whether the blocks were sorted, and the blocks
    settings,           \* options.prometheusPort, options.batchSize and src
    lastCall            \* the last configuration call and what it threw

vars == <<procBatches, optBlockRange, running, lastBlock, heightAtStart,
          mainPc, genAtYield, curBatch, ing, archiveHeight, pushed, yielded,
          transacts, advanced, failedIn, allZero, lastResp,
          client, onRetryCalls, lastRetry, settled, gatewayBlock, blockData,
          operands, merged, planBound, planned, responseData, sorted,
          settings, lastCall>>

pipelineVars ==
    <<procBatches, optBlockRange, running, lastBlock, heightAtStart, mainPc,
      genAtYield, curBatch, ing, archiveHeight, pushed, yielded, transacts,
      advanced, failedIn, allZero, lastResp>>

clientVars == <<client, onRetryCalls, lastRetry, settled>>

decodeVars == <<gatewayBlock, blockData>>

planVars == <<operands, merged, planBound, planned>>

sortVars == <<responseData, sorted>>

configVars == <<settings, lastCall>>

NotSorted == [done |-> FALSE, blocks |-> <<>>]

NotMerged ==
    [done |-> FALSE, ab |-> EmptyRequest, ab_c |-> EmptyRequest,
     a_bc |-> EmptyRequest]

NotPlanned == [done |-> FALSE, batches |-> <<>>]

NotDecoded == [decoded |-> FALSE, items |-> <<>>, pushedItems |-> <<>>]

procVars == <<procBatches, optBlockRange>>
logVars == <<pushed, yielded, transacts, advanced>>
envVars == <<allZero, lastResp>>

\* ------------------------------------------------------------ configuration
\* EvmBatchProcessor.addLog / add: one registration per call
addedBatch(i, range) ==
    [range |-> range, request |-> [logs |-> <<i>>, transactions |-> <<>>]]

\* assertNotRunning(): the message of the error it throws
SettingsError ==
    "Settings modifications are not allowed after start of processing"

\* a guard that lets every call through
assertNotRunningNever(isRunning) == FALSE

\* assertNotRunning(): whether it throws, given this.running
assertNotRunning(isRunning) == isRunning

\* options.prometheusPort, options.batchSize and src of a new processor:
\* all undefined (a field is <<>> when undefined, <<v>> when set to v)
NoSettings == [prometheusPort |-> <<>>, batchSize |-> <<>>, src |-> <<>>]

NoCall == [op |-> "none", error |-> "none"]

\* a configuration method called while this.running = isRunning: the error
\* its first statement this.assertNotRunning() throws, if any
called(op, isRunning) ==
    [op |-> op,
     error |-> IF assertNotRunning(isRunning) THEN SettingsError ELSE "none"]

\* the arguments of the configuration calls of the model
LogRanges == {[from |-> 0, to |-> Undefined], [from |-> 1, to |-> 2]}
BatchSizes == {1, 2}
DataSources == {"archiveA", "archiveB"}
PrometheusPorts == {3000, 3001}

\* the registrations of the model: none, one addLog without a range, and
\* an addLog for the range {1, 2} followed by one without a range
Registrations ==
    {<<>>,
     <<addedBatch(1, [from |-> 0, to |-> Undefined])>>,
     <<addedBatch(1, [from |-> 1, to |-> 2]),
       addedBatch(2, [from |-> 0, to |-> Undefined])>>}

BlockRangeOptions ==
    {<<>>, <<[from |-> 0, to |-> MaxHeight]>>, <<[from |-> 0, to |-> 1]>>}

NoResponse == [nextBlock |-> -1, lower |-> FALSE]

\* the ghost record after a status that reports `status`
noteStatus(resp, status, known) ==
    [resp EXCEPT !.lower = statusToHeight(status) < known]

NewIngest ==
    [batches |-> <<>>, queue |-> <<>>, fetchLoopIsStopped |-> TRUE,
     fetchPc |-> "idle", fetchBatch |-> NoSegment, fetchHeight |-> -1,
     nQueries |-> 0, lastQuery |-> NoQuery, entryAssertFailed |-> FALSE,
     options |-> [batches |-> <<>>], batchesIsSlice |-> TRUE]

\* an Ingest whose plan is the caller's array itself
constructorShared(batches) ==
    [NewIngest EXCEPT !.batches = batches,
                      !.options = [batches |-> batches],
                      !.batchesIsSlice = FALSE]

\* Ingest.constructor: this.batches = options.batches.slice(), a new array
\* of the same segments
constructor(batches) ==
    [NewIngest EXCEPT !.batches = batches,
                      !.options = [batches |-> batches],
                      !.batchesIsSlice = TRUE]

\* options.batches after fetchLoop has written `plan` to this.batches (by
\* this.batches[0] = {...}, a new segment object, or this.batches.shift()):
\* the write reaches the caller's array only if this.batches is that array
optionsAfter(s, plan) ==
    IF s.batchesIsSlice THEN s.options ELSE [batches |-> plan]

Init ==
    /\ procBatches \in Registrations
    /\ optBlockRange \in BlockRangeOptions
    /\ running = FALSE
    /\ lastBlock = -1
    /\ heightAtStart = -1
    /\ mainPc = "idle"
    /\ genAtYield = FALSE
    /\ curBatch = NoBatch
    /\ ing = NewIngest
    /\ archiveHeight = -1
    /\ pushed = <<>>
    /\ yielded = <<>>
    /\ transacts = <<>>
    /\ advanced = <<>>
    /\ failedIn = "none"
    /\ allZero = TRUE
    /\ lastResp = NoResponse
    /\ client = NewClient
    /\ onRetryCalls = <<>>
    /\ lastRetry = NoRetry
    /\ settled = NotSettled
    /\ gatewayBlock = NoBlock
    /\ blockData = NotDecoded
    /\ operands = <<EmptyRequest, EmptyRequest, EmptyRequest>>
    /\ merged = NotMerged
    /\ planBound = [from |-> 0, to |-> Undefined]
    /\ planned = NotPlanned
    /\ responseData = <<>>
    /\ sorted = NotSorted
    /\ settings = NoSettings
    /\ lastCall = NoCall

\* ------------------------------------------------------- processor actions
\* run(): this.running = true, then db.connect() is awaited
Run ==
    /\ mainPc = "idle"
    /\ running' = TRUE
    /\ mainPc' = "connect"
    /\ UNCHANGED <<clientVars, decodeVars, planVars, sortVars, procVars, lastBlock, heightAtStart, genAtYield, curBatch,
                   ing, archiveHeight, logVars, failedIn, envVars,
                   configVars>>

\* run(): db.connect() returned h; either nothing to do, or the Ingest is
\* built from the bounded plan and the first height request is sent
Connected(h) ==
    /\ mainPc = "connect"
    /\ heightAtStart' = h
    /\ LET blockRange == getWholeBlockRange(optBlockRange)
       IN  IF nothingToDo(blockRange, h)
           THEN /\ mainPc' = "done"
                /\ ing' = ing
           ELSE /\ mainPc' = "initHeight"
                /\ ing' = constructor(
                             createBatches(procBatches,
                                           effectiveRange(blockRange, h)))
    /\ UNCHANGED <<clientVars, decodeVars, planVars, sortVars, procVars, running, lastBlock, genAtYield, curBatch,
                   archiveHeight, logVars, failedIn, envVars,
                   configVars>>

\* run(): ingest.fetchArchiveHeight() returned; process() starts
InitHeight(status) ==
    /\ mainPc = "initHeight"
    /\ archiveHeight' = setArchiveHeight(archiveHeight, statusToHeight(status))
    /\ allZero' = (allZero /\ status = ZeroStatus)
    /\ lastResp' = noteStatus(lastResp, status, archiveHeight)
    /\ mainPc' = "next"
    /\ UNCHANGED <<clientVars, decodeVars, planVars, sortVars, procVars, running, lastBlock, heightAtStart, genAtYield,
                   curBatch, ing, logVars, failedIn,
                   configVars>>

\* run(): the first height request failed
InitHeightFail ==
    /\ mainPc = "initHeight"
    /\ mainPc' = "failed"
    /\ failedIn' = "archive"
    /\ allZero' = FALSE
    /\ UNCHANGED <<clientVars, decodeVars, planVars, sortVars, procVars, running, lastBlock, heightAtStart, genAtYield,
                   curBatch, ing, archiveHeight, logVars, lastResp,
                   configVars>>

\* process() asks getBlocks for the next batch: the generator runs from
\* its start, or from its yield, to `await queue[0]` or to its end
PullNext ==
    /\ mainPc = "next"
    /\ LET shifted == IF genAtYield /\ Len(ing.queue) > 0
                      THEN [ing EXCEPT !.queue = Tail(ing.queue)]
                      ELSE ing
           spawned == IF mustSpawn(shifted)
                      THEN fetchLoop(shifted, archiveHeight)
                      ELSE shifted
       IN  IF Len(shifted.batches) = 0
           THEN /\ ing' = shifted
                /\ mainPc' = "done"
                /\ failedIn' = failedIn
           ELSE /\ ing' = spawned
                /\ IF Len(spawned.queue) = 0
                   THEN mainPc' = "failed" /\ failedIn' = "assertNotNull"
                   ELSE mainPc' = "await" /\ failedIn' = failedIn
    /\ genAtYield' = FALSE
    /\ UNCHANGED <<clientVars, decodeVars, planVars, sortVars, procVars, running, lastBlock, heightAtStart, curBatch,
                   archiveHeight, logVars, envVars,
                   configVars>>

\* the head of the queue has settled: getBlocks yields it (or throws), and
\* process() starts the transaction, or goes straight to db.advance
Yield ==
    /\ mainPc = "await"
    /\ ing.queue[1].status # "pending"
    /\ IF ing.queue[1].status = "rejected"
       THEN /\ mainPc' = "failed"
            /\ failedIn' = "ingest"
            /\ UNCHANGED <<genAtYield, curBatch, yielded, lastBlock, advanced,
                           transacts>>
       ELSE LET batch == ing.queue[1].value
            IN  /\ genAtYield' = TRUE
                /\ curBatch' = batch
                /\ yielded' = Append(yielded, batch)
                /\ failedIn' = failedIn
                /\ IF needsTransaction(batch.blocks)
                   THEN /\ mainPc' = "transact"
                        /\ transacts' =
                             Append(transacts,
                                    [id |-> batch.id,
                                     span |-> transactSpan(batch.blocks)])
                        /\ UNCHANGED <<lastBlock, advanced>>
                   ELSE /\ mainPc' = "advance"
                        /\ lastBlock' = advanceHeight(batch)
                        /\ advanced' = Append(advanced, advanceHeight(batch))
                        /\ UNCHANGED transacts
    /\ UNCHANGED <<clientVars, decodeVars, planVars, sortVars, procVars, running, heightAtStart, ing, archiveHeight,
                   pushed, envVars,
                   configVars>>

\* db.transact(from, to, handler) has settled: on success lastBlock is set
\* and db.advance is called, on failure the error leaves process()
TransactDone(ok) ==
    /\ mainPc = "transact"
    /\ mainPc' = afterTransact(ok)
    /\ IF afterTransact(ok) = "advance"
       THEN /\ lastBlock' = advanceHeight(curBatch)
            /\ advanced' = Append(advanced, advanceHeight(curBatch))
       ELSE UNCHANGED <<lastBlock, advanced>>
    /\ failedIn' = IF ok THEN failedIn ELSE "transact"
    /\ UNCHANGED <<clientVars, decodeVars, planVars, sortVars, procVars, running, heightAtStart, genAtYield, curBatch,
                   ing, archiveHeight, pushed, yielded, transacts, envVars,
                   configVars>>

\* db.advance returned: the loop body ends
AdvanceOk ==
    /\ mainPc = "advance"
    /\ mainPc' = "next"
    /\ UNCHANGED <<clientVars, decodeVars, planVars, sortVars, procVars, running, lastBlock, heightAtStart, genAtYield,
                   curBatch, ing, archiveHeight, logVars, failedIn, envVars,
                   configVars>>

AdvanceFail ==
    /\ mainPc = "advance"
    /\ mainPc' = "failed"
    /\ failedIn' = "advance"
    /\ UNCHANGED <<clientVars, decodeVars, planVars, sortVars, procVars, running, lastBlock, heightAtStart, genAtYield,
                   curBatch, ing, archiveHeight, logVars, envVars,
                   configVars>>

\* ---------------------------------------------------------- driver actions
\* runProgram ends the process when run() has returned or thrown
processAlive == mainPc \notin {"done", "failed"}

\* waitForHeight: the height request returned
HeightResponse(status) ==
    /\ processAlive
    /\ ing.fetchPc = "height"
    /\ LET h == setArchiveHeight(archiveHeight, statusToHeight(status))
       IN  /\ archiveHeight' = h
           /\ ing' = IF heightReached(h, ing.fetchBatch.range.from)
                     THEN startQuery(ing, h)
                     ELSE [ing EXCEPT !.fetchPc = "sleep"]
    /\ allZero' = (allZero /\ status = ZeroStatus)
    /\ lastResp' = noteStatus(lastResp, status, archiveHeight)
    /\ UNCHANGED <<clientVars, decodeVars, planVars, sortVars, procVars, running, lastBlock, heightAtStart, mainPc,
                   genAtYield, curBatch, logVars, failedIn,
                   configVars>>

\* waitForHeight: the height request failed
HeightFail ==
    /\ processAlive
    /\ ing.fetchPc = "height"
    /\ ing' = rejectSlot(ing)
    /\ allZero' = FALSE
    /\ UNCHANGED <<clientVars, decodeVars, planVars, sortVars, procVars, running, lastBlock, heightAtStart, mainPc,
                   genAtYield, curBatch, archiveHeight, logVars, failedIn,
                   lastResp,
                   configVars>>

\* waitForHeight: wait(archivePollIntervalMS) is over
WakeUp ==
    /\ processAlive
    /\ ing.fetchPc = "sleep"
    /\ ing' = waitForHeight(ing, archiveHeight)
    /\ UNCHANGED <<clientVars, decodeVars, planVars, sortVars, procVars, running, lastBlock, heightAtStart, mainPc,
                   genAtYield, curBatch, archiveHeight, logVars, failedIn,
                   envVars,
                   configVars>>

\* the archive's answers to a block query
NextBlocks(q) == q.fromBlock..(q.toBlock + 1)

\* response.data: nothing; one block just outside of the queried range;
\* or the blocks at the two ends of the covered range, in descending order
\* and in two chunks (one block when the ends coincide)
DataOptions(q, nextBlock) ==
    {<<>>}
    \cup {<< <<a>> >> : a \in {q.fromBlock - 1, q.toBlock + 1} \cap Nat}
    \cup {IF nextBlock - 1 > q.fromBlock
          THEN << <<nextBlock - 1>>, <<q.fromBlock>> >>
          ELSE << <<q.fromBlock>> >>}

\* the block query returned
QueryResponse(status, data, nextBlock) ==
    /\ processAlive
    /\ ing.fetchPc = "query"
    /\ LET batch == ing.fetchBatch
           height == ing.fetchHeight
           blocks == sortByHeight(flat(data))
           statusOk == status.dbMaxBlockNumber >= height
           to == emittedTo(batch, nextBlock)
           ok == /\ statusOk
                 /\ blocksInBounds(batch, height, blocks)
                 /\ to # Undefined
           value == [range |-> [from |-> batch.range.from, to |-> to],
                     request |-> batch.request, blocks |-> blocks,
                     id |-> ing.nQueries]
           i == pendingIndex(ing.queue)
           resolved == [ing EXCEPT
                           !.batches = planAfter(ing.batches, batch, nextBlock),
                           !.options =
                              optionsAfter(ing, planAfter(ing.batches, batch,
                                                          nextBlock)),
                           !.queue[i] = [status |-> "fulfilled",
                                         value |-> value]]
           h == IF statusOk
                THEN setArchiveHeight(archiveHeight, statusToHeight(status))
                ELSE archiveHeight
       IN  /\ archiveHeight' = h
           /\ IF ok
              THEN /\ ing' = loopHead(resolved, h)
                   /\ pushed' = Append(pushed, value)
                   /\ lastResp' =
                        [noteStatus(lastResp, status, archiveHeight)
                            EXCEPT !.nextBlock = nextBlock]
              ELSE /\ ing' = rejectSlot(ing)
                   /\ lastResp' = noteStatus(lastResp, status, archiveHeight)
                   /\ UNCHANGED pushed
    /\ allZero' = (allZero /\ status = ZeroStatus)
    /\ UNCHANGED <<clientVars, decodeVars, planVars, sortVars, procVars, running, lastBlock, heightAtStart, mainPc,
                   genAtYield, curBatch, yielded, transacts, advanced,
                   failedIn,
                   configVars>>

\* the block query failed
QueryFail ==
    /\ processAlive
    /\ ing.fetchPc = "query"
    /\ ing' = rejectSlot(ing)
    /\ UNCHANGED <<clientVars, decodeVars, planVars, sortVars, procVars, running, lastBlock, heightAtStart, mainPc,
                   genAtYield, curBatch, archiveHeight, logVars, failedIn,
                   envVars,
                   configVars>>

Next ==
    \/ Run
    \/ \E h \in -1..MaxStart : Connected(h)
    \/ \E status \in Statuses : InitHeight(status)
    \/ InitHeightFail
    \/ PullNext
    \/ Yield
    \/ \E ok \in BOOLEAN : TransactDone(ok)
    \/ AdvanceOk
    \/ AdvanceFail
    \/ \E status \in Statuses : HeightResponse(status)
    \/ HeightFail
    \/ WakeUp
    \/ /\ ing.nQueries <= MaxFetches
       /\ \E status \in Statuses :
             \E nextBlock \in NextBlocks(ing.lastQuery) :
                \E data \in DataOptions(ing.lastQuery, nextBlock) :
                   QueryResponse(status, data, nextBlock)
    \/ QueryFail

Spec == Init /\ [][Next]_vars

\* ---------------------------------------------- a run that nothing fails
\* the archive answers a block query with a status that is not behind the
\* height the query was built for, with blocks of the queried range, and
\* with a nextBlock beyond fromBlock
GoodQueryResponse ==
    \E status \in Statuses :
       \E nextBlock \in NextBlocks(ing.lastQuery) \ {ing.lastQuery.fromBlock} :
          \E data \in DataOptions(ing.lastQuery, nextBlock) :
             /\ QueryResponse(status, data, nextBlock)
             /\ Len(pushed') = Len(pushed) + 1

\* the archive reports a height that ends waitForHeight
HeightReached ==
    \E status \in Statuses :
       /\ HeightResponse(status)
       /\ ing'.fetchPc # "sleep"

\* the steps of run(), of getBlocks and of the handler's transaction
ProcessorStep ==
    \/ Run
    \/ \E h \in -1..MaxStart : Connected(h)
    \/ \E status \in Statuses : InitHeight(status)
    \/ PullNext
    \/ Yield
    \/ TransactDone(TRUE)
    \/ AdvanceOk

\* the steps of fetchLoop
DriverStep ==
    \/ \E status \in Statuses : HeightResponse(status)
    \/ WakeUp
    \/ GoodQueryResponse

LiveNext == ProcessorStep \/ DriverStep

\* every continuation that is ready runs, every request is answered and
\* every timer fires; the archive's height reaches the height fetchLoop
\* waits for if one of its statuses can
LiveSpec ==
    /\ Init
    /\ [][LiveNext]_vars
    /\ WF_vars(ProcessorStep)
    /\ WF_vars(DriverStep)
    /\ SF_vars(HeightReached)

\* --------------------------------------------------- archive client actions
\* ArchiveClient.query / getStatus: request() runs up to its first fetch
Request(method) ==
    /\ client.pc = "idle"
    /\ client.requests < MaxRequests
    /\ client' = [NewClient EXCEPT !.pc = "fetch", !.method = method,
                                   !.attempts = 1,
                                   !.requests = client.requests + 1]
    /\ onRetryCalls' = <<>>
    /\ lastRetry' = NoRetry
    /\ settled' = NotSettled
    /\ UNCHANGED <<pipelineVars, decodeVars, planVars, sortVars,
                   configVars>>

\* request(): performFetch has settled; the request waits for a retry,
\* throws, or returns (getHeight maps the status it gets)
FetchSettled(a) ==
    /\ client.pc = "fetch"
    /\ LET result == performFetch(a)
       IN  IF mustRetry(result, client.errors)
           THEN /\ client.errors < MaxRetries
                /\ client' = [client EXCEPT !.pc = "wait",
                                            !.timeout = backoffAt(client.errors),
                                            !.errors = client.errors + 1,
                                            !.result = result]
                /\ UNCHANGED settled
           ELSE /\ client' = [client EXCEPT !.pc = "idle", !.result = result]
                /\ settled' =
                     IF isError(result)
                     THEN [kind |-> "error", result |-> result, height |-> -1]
                     ELSE [kind |-> "value", result |-> result,
                           height |-> IF client.method = "GET"
                                      THEN getHeight(result.value) ELSE -1]
    /\ UNCHANGED <<onRetryCalls, lastRetry, pipelineVars, decodeVars, planVars, sortVars,
                   configVars>>

\* request(): wait(timeout) is over; onRetry is called and the next attempt
\* starts
BackoffOver ==
    /\ client.pc = "wait"
    /\ onRetryCalls' = onRetry(onRetryCalls, client.errors, client.timeout)
    /\ lastRetry' = [err |-> client.result, query |-> bodyOf(client.method)]
    /\ client' = [client EXCEPT !.pc = "fetch",
                                !.attempts = client.attempts + 1]
    /\ UNCHANGED <<settled, pipelineVars, decodeVars, planVars, sortVars,
                   configVars>>

RetryInit ==
    /\ procBatches = <<>>
    /\ optBlockRange = <<>>
    /\ running = FALSE
    /\ lastBlock = -1
    /\ heightAtStart = -1
    /\ mainPc = "idle"
    /\ genAtYield = FALSE
    /\ curBatch = NoBatch
    /\ ing = NewIngest
    /\ archiveHeight = -1
    /\ pushed = <<>>
    /\ yielded = <<>>
    /\ transacts = <<>>
    /\ advanced = <<>>
    /\ failedIn = "none"
    /\ allZero = TRUE
    /\ lastResp = NoResponse
    /\ client = NewClient
    /\ onRetryCalls = <<>>
    /\ lastRetry = NoRetry
    /\ settled = NotSettled
    /\ gatewayBlock = NoBlock
    /\ blockData = NotDecoded
    /\ operands = <<EmptyRequest, EmptyRequest, EmptyRequest>>
    /\ merged = NotMerged
    /\ planBound = [from |-> 0, to |-> Undefined]
    /\ planned = NotPlanned
    /\ responseData = <<>>
    /\ sorted = NotSorted
    /\ settings = NoSettings
    /\ lastCall = NoCall

RetryNext ==
    \/ \E method \in {"GET", "POST"} : Request(method)
    \/ \E a \in Attempts : FetchSettled(a)
    \/ BackoffOver

RetrySpec == RetryInit /\ [][RetryNext]_vars

\* ------------------------------------------------------------ block decoding
\* tryMapGatewayBlock: a block of the response is decoded
TryMapGatewayBlock ==
    /\ ~blockData.decoded
    /\ blockData' = [decoded |-> TRUE, items |-> mapGatewayBlock(gatewayBlock),
                     pushedItems |-> pushedItems(gatewayBlock)]
    /\ UNCHANGED <<gatewayBlock, pipelineVars, clientVars, planVars, sortVars,
                   configVars>>

DecodeInit ==
    /\ procBatches = <<>>
    /\ optBlockRange = <<>>
    /\ running = FALSE
    /\ lastBlock = -1
    /\ heightAtStart = -1
    /\ mainPc = "idle"
    /\ genAtYield = FALSE
    /\ curBatch = NoBatch
    /\ ing = NewIngest
    /\ archiveHeight = -1
    /\ pushed = <<>>
    /\ yielded = <<>>
    /\ transacts = <<>>
    /\ advanced = <<>>
    /\ failedIn = "none"
    /\ allZero = TRUE
    /\ lastResp = NoResponse
    /\ client = NewClient
    /\ onRetryCalls = <<>>
    /\ lastRetry = NoRetry
    /\ settled = NotSettled
    /\ gatewayBlock \in GatewayBlocks
    /\ blockData = NotDecoded
    /\ operands = <<EmptyRequest, EmptyRequest, EmptyRequest>>
    /\ merged = NotMerged
    /\ planBound = [from |-> 0, to |-> Undefined]
    /\ planned = NotPlanned
    /\ responseData = <<>>
    /\ sorted = NotSorted
    /\ settings = NoSettings
    /\ lastCall = NoCall

DecodeNext == TryMapGatewayBlock

DecodeSpec == DecodeInit /\ [][DecodeNext]_vars

\* ----------------------------------------------------------- request.merge
\* lists of at most n clauses, a clause being named by a number
Clauses(n) == UNION {[1..k -> 1..2] : k \in 0..n}

\* PlainBatchRequest objects: the fields logs and transactions
Requests == [logs : Clauses(MaxClauses), transactions : Clauses(MaxClauses)]

\* a.merge(b), a.merge(b).merge(c) and a.merge(b.merge(c)); merge assigns
\* to the fields of its result only, and concat returns a new array
Merge ==
    /\ ~merged.done
    /\ merged' =
          [done |-> TRUE,
           ab |-> merge(operands[1], operands[2]),
           ab_c |-> merge(merge(operands[1], operands[2]), operands[3]),
           a_bc |-> merge(operands[1], merge(operands[2], operands[3]))]
    /\ UNCHANGED <<operands, planBound, planned, pipelineVars, clientVars,
                   decodeVars, sortVars,
                   configVars>>

MergeInit ==
    /\ procBatches = <<>>
    /\ optBlockRange = <<>>
    /\ running = FALSE
    /\ lastBlock = -1
    /\ heightAtStart = -1
    /\ mainPc = "idle"
    /\ genAtYield = FALSE
    /\ curBatch = NoBatch
    /\ ing = NewIngest
    /\ archiveHeight = -1
    /\ pushed = <<>>
    /\ yielded = <<>>
    /\ transacts = <<>>
    /\ advanced = <<>>
    /\ failedIn = "none"
    /\ allZero = TRUE
    /\ lastResp = NoResponse
    /\ client = NewClient
    /\ onRetryCalls = <<>>
    /\ lastRetry = NoRetry
    /\ settled = NotSettled
    /\ gatewayBlock = NoBlock
    /\ blockData = NotDecoded
    /\ operands \in Requests \X Requests \X Requests
    /\ merged = NotMerged
    /\ planBound = [from |-> 0, to |-> Undefined]
    /\ planned = NotPlanned
    /\ responseData = <<>>
    /\ sorted = NotSorted
    /\ settings = NoSettings
    /\ lastCall = NoCall

MergeNext == Merge

MergeSpec == MergeInit /\ [][MergeNext]_vars

\* ----------------------------------------------------------- createBatches
\* the ranges of the model's heights, closed and open-ended
Ranges ==
    {r \in [from : Heights, to : Heights \cup {Undefined}] :
        r.to = Undefined \/ r.from <= r.to}

\* the registrations after at most n calls of addLog, the i-th with the
\* clause i; add() gives a registration without a range the range {from: 0}
AddedBatches(n) ==
    UNION {{[i \in 1..k |-> addedBatch(i, rs[i])] : rs \in [1..k -> Ranges]} :
              k \in 0..n}

\* this.createBatches(blockRange)
CreateBatches ==
    /\ ~planned.done
    /\ planned' = [done |-> TRUE,
                   batches |-> createBatches(procBatches, planBound)]
    /\ UNCHANGED <<operands, merged, planBound, pipelineVars, clientVars,
                   decodeVars, sortVars,
                   configVars>>

PlanInit ==
    /\ procBatches \in AddedBatches(MaxAdded)
    /\ optBlockRange = <<>>
    /\ running = FALSE
    /\ lastBlock = -1
    /\ heightAtStart = -1
    /\ mainPc = "idle"
    /\ genAtYield = FALSE
    /\ curBatch = NoBatch
    /\ ing = NewIngest
    /\ archiveHeight = -1
    /\ pushed = <<>>
    /\ yielded = <<>>
    /\ transacts = <<>>
    /\ advanced = <<>>
    /\ failedIn = "none"
    /\ allZero = TRUE
    /\ lastResp = NoResponse
    /\ client = NewClient
    /\ onRetryCalls = <<>>
    /\ lastRetry = NoRetry
    /\ settled = NotSettled
    /\ gatewayBlock = NoBlock
    /\ blockData = NotDecoded
    /\ operands = <<EmptyRequest, EmptyRequest, EmptyRequest>>
    /\ merged = NotMerged
    /\ planBound \in Ranges
    /\ planned = NotPlanned
    /\ responseData = <<>>
    /\ sorted = NotSorted
    /\ settings = NoSettings
    /\ lastCall = NoCall

PlanNext == CreateBatches

PlanSpec == PlanInit /\ [][PlanNext]_vars

\* ------------------------------------------------- the blocks of a response
\* response.data of QueryResponse: at most MaxBlocks blocks, of any heights
\* in any order, in no chunk or split into two chunks at any place
JaggedData ==
    {<<>>} \cup
    UNION {{<<SubSeq(l, 1, k), SubSeq(l, k + 1, Len(l))>> : k \in 0..Len(l)} :
              l \in UNION {[1..n -> Heights] : n \in 0..MaxBlocks}}

\* fetchLoop: response.data.flat().map(tryMapGatewayBlock).sort(...)
SortBlocks ==
    /\ ~sorted.done
    /\ sorted' = [done |-> TRUE, blocks |-> sortByHeight(flat(responseData))]
    /\ UNCHANGED <<responseData, pipelineVars, clientVars, decodeVars,
                   planVars,
                   configVars>>

SortInit ==
    /\ procBatches = <<>>
    /\ optBlockRange = <<>>
    /\ running = FALSE
    /\ lastBlock = -1
    /\ heightAtStart = -1
    /\ mainPc = "idle"
    /\ genAtYield = FALSE
    /\ curBatch = NoBatch
    /\ ing = NewIngest
    /\ archiveHeight = -1
    /\ pushed = <<>>
    /\ yielded = <<>>
    /\ transacts = <<>>
    /\ advanced = <<>>
    /\ failedIn = "none"
    /\ allZero = TRUE
    /\ lastResp = NoResponse
    /\ client = NewClient
    /\ onRetryCalls = <<>>
    /\ lastRetry = NoRetry
    /\ settled = NotSettled
    /\ gatewayBlock = NoBlock
    /\ blockData = NotDecoded
    /\ operands = <<EmptyRequest, EmptyRequest, EmptyRequest>>
    /\ merged = NotMerged
    /\ planBound = [from |-> 0, to |-> Undefined]
    /\ planned = NotPlanned
    /\ responseData \in JaggedData
    /\ sorted = NotSorted
    /\ settings = NoSettings
    /\ lastCall = NoCall

SortNext == SortBlocks

SortSpec == SortInit /\ [][SortNext]_vars

\* ------------------------------------------------------ configuration calls
\* the state of run() and of the pipeline, which no configuration call
\* touches
runVars ==
    <<lastBlock, heightAtStart, mainPc, genAtYield, curBatch, ing,
      archiveHeight, logVars, failedIn, envVars>>

\* addLog(contractAddress, options): assertNotRunning, then add(req, range)
AddLog(range) ==
    /\ lastCall' = called("addLog", running)
    /\ IF assertNotRunning(running)
       THEN UNCHANGED procBatches
       ELSE /\ Len(procBatches) < MaxAdded
            /\ procBatches' =
                  Append(procBatches,
                         addedBatch(Len(procBatches) + 1, range))
    /\ UNCHANGED <<optBlockRange, settings, running, runVars, clientVars,
                   decodeVars, planVars, sortVars>>

\* setPrometheusPort(port)
SetPrometheusPort(port) ==
    /\ lastCall' = called("setPrometheusPort", running)
    /\ settings' = IF assertNotRunning(running) THEN settings
                   ELSE [settings EXCEPT !.prometheusPort = <<port>>]
    /\ UNCHANGED <<procVars, running, runVars, clientVars, decodeVars,
                   planVars, sortVars>>

\* setBlockRange(range): range may be undefined
SetBlockRange(range) ==
    /\ lastCall' = called("setBlockRange", running)
    /\ optBlockRange' = IF assertNotRunning(running) THEN optBlockRange
                        ELSE range
    /\ UNCHANGED <<procBatches, settings, running, runVars, clientVars,
                   decodeVars, planVars, sortVars>>

\* setBatchSize(size)
SetBatchSize(size) ==
    /\ lastCall' = called("setBatchSize", running)
    /\ settings' = IF assertNotRunning(running) THEN settings
                   ELSE [settings EXCEPT !.batchSize = <<size>>]
    /\ UNCHANGED <<procVars, running, runVars, clientVars, decodeVars,
                   planVars, sortVars>>

\* setDataSource(src)
SetDataSource(src) ==
    /\ lastCall' = called("setDataSource", running)
    /\ settings' = IF assertNotRunning(running) THEN settings
                   ELSE [settings EXCEPT !.src = <<src>>]
    /\ UNCHANGED <<procVars, running, runVars, clientVars, decodeVars,
                   planVars, sortVars>>

\* a processor right after its construction
ConfigInit ==
    /\ procBatches = <<>>
    /\ optBlockRange = <<>>
    /\ running = FALSE
    /\ lastBlock = -1
    /\ heightAtStart = -1
    /\ mainPc = "idle"
    /\ genAtYield = FALSE
    /\ curBatch = NoBatch
    /\ ing = NewIngest
    /\ archiveHeight = -1
    /\ pushed = <<>>
    /\ yielded = <<>>
    /\ transacts = <<>>
    /\ advanced = <<>>
    /\ failedIn = "none"
    /\ allZero = TRUE
    /\ lastResp = NoResponse
    /\ client = NewClient
    /\ onRetryCalls = <<>>
    /\ lastRetry = NoRetry
    /\ settled = NotSettled
    /\ gatewayBlock = NoBlock
    /\ blockData = NotDecoded
    /\ operands = <<EmptyRequest, EmptyRequest, EmptyRequest>>
    /\ merged = NotMerged
    /\ planBound = [from |-> 0, to |-> Undefined]
    /\ planned = NotPlanned
    /\ responseData = <<>>
    /\ sorted = NotSorted
    /\ settings = NoSettings
    /\ lastCall = NoCall

\* the configuration calls, and run(), in any order
ConfigNext ==
    \/ \E range \in LogRanges : AddLog(range)
    \/ \E port \in PrometheusPorts : SetPrometheusPort(port)
    \/ \E range \in BlockRangeOptions : SetBlockRange(range)
    \/ \E size \in BatchSizes : SetBatchSize(size)
    \/ \E src \in DataSources : SetDataSource(src)
    \/ Run

ConfigSpec == ConfigInit /\ [][ConfigNext]_vars

\* ------------------------------------------------------------------ claims
\* C1: every batch the driver placed into the queue has been yielded by
\* getBlocks, once and in queue order, when getBlocks finishes.
C1_QueuedBatchesAllYielded == mainPc = "done" => yielded = pushed

\* C2: after an accepted response with to = nextBlock - 1, the emitted batch
\* has range {from: batch.range.from, to: nextBlock - 1}, and plan[0] is
\* replaced by the remainder {to + 1, batch.range.to} if to < end(batch.range)
\* and popped otherwise.
C2_PartialRangeHandling ==
    [][Len(pushed') = Len(pushed) + 1 =>
         LET batch == ing.fetchBatch
             to == lastResp'.nextBlock - 1
         IN  /\ last(pushed').range = [from |-> batch.range.from, to |-> to]
             /\ IF to < rangeEnd(batch.range)
                THEN ing'.batches =
                        [ing.batches EXCEPT ![1] =
                            [range |-> [from |-> to + 1,
                                        to |-> batch.range.to],
                             request |-> batch.request]]
                ELSE ing'.batches = Tail(ing.batches)]_vars

\* C3: the yielded batches are a prefix of the queued batches, and the range
\* of each yielded batch ends before the range of the next one starts.
C3_BatchMonotonicity ==
    /\ Len(yielded) <= Len(pushed)
    /\ yielded = SubSeq(pushed, 1, Len(yielded))
    /\ \A i \in 1..(Len(yielded) - 1) :
          yielded[i].range.to < yielded[i + 1].range.from

\* three batches were yielded: two of one plan segment and one of the next
C3_Witness ==
    /\ Len(yielded) >= 3
    /\ yielded[1].request = yielded[2].request
    /\ yielded[2].request # yielded[3].request

\* the yielded batches that carry blocks
hasBlocks(batch) == Len(batch.blocks) # 0
yieldedWithBlocks == SelectSeq(yielded, hasBlocks)

\* C4: db.transact (and with it the handler) is called once for every yielded
\* batch with blocks, in order, with the span [blocks[0], last(blocks)], and
\* never for a batch without blocks.
C4_HandlerOncePerNonEmptyBatch ==
    /\ Len(transacts) = Len(yieldedWithBlocks)
    /\ \A i \in 1..Len(transacts) :
          LET batch == yieldedWithBlocks[i]
          IN  /\ transacts[i].id = batch.id
              /\ transacts[i].span =
                    [from |-> batch.blocks[1],
                     to |-> batch.blocks[Len(batch.blocks)]]

\* a batch without blocks and a batch with two blocks were yielded, and the
\* transaction of the latter has completed
C4_Witness ==
    /\ \E i \in 1..Len(yielded) : ~hasBlocks(yielded[i])
    /\ \E i \in 1..Len(transacts) : transacts[i].span.from < transacts[i].span.to
    /\ mainPc = "advance"
    /\ hasBlocks(curBatch)

\* db.advance has been called with range.to for every yielded batch but the
\* one whose transaction is still open or has failed
advanceMatches ==
    LET n == IF mainPc = "transact" \/ failedIn = "transact"
             THEN Len(yielded) - 1 ELSE Len(yielded)
    IN  /\ Len(advanced) = n
        /\ \A i \in 1..n : advanced[i] = yielded[i].range.to

\* C5: db.advance(batch.range.to) is called once per yielded
\* batch, after its transaction and before the next pull, and the heights
\* passed to db.advance are strictly increasing.
C5_AdvanceStrictlyIncreasing ==
    /\ advanceMatches
    /\ \A i \in 1..(Len(advanced) - 1) : advanced[i] < advanced[i + 1]

\* what the driver keeps of C5: db.advance(batch.range.to) is called once
\* per yielded batch, after its transaction and before the next pull; a
\* height passed to db.advance is greater than the previous one whenever the
\* range of its batch is not empty (the response had nextBlock > fromBlock).
C5_AdvancePerBatch ==
    /\ advanceMatches
    /\ \A i \in 1..(Len(advanced) - 1) :
          yielded[i + 1].range.from <= yielded[i + 1].range.to
             => advanced[i] < advanced[i + 1]

\* three batches were advanced, with and without blocks, one of them for a
\* response that covered nothing
C5_Witness ==
    /\ Len(advanced) >= 3
    /\ \E i \in 1..Len(advanced) : ~hasBlocks(yielded[i])
    /\ \E i \in 1..Len(advanced) : hasBlocks(yielded[i])
    /\ \E i \in 1..Len(advanced) : yielded[i].range.to < yielded[i].range.from

\* C6: when db.transact (the handler) fails, process() ends with the error:
\* db.advance was not called for that batch, lastBlock still holds the
\* previous checkpoint, no later batch is yielded, handled or advanced.
C6_FailureStopsDriverLoop ==
    /\ [](failedIn = "transact" =>
            /\ mainPc = "failed"
            /\ Len(advanced) = Len(yielded) - 1
            /\ lastBlock = (IF advanced = <<>> THEN -1 ELSE last(advanced))
            /\ last(transacts).id = last(yielded).id)
    /\ [][mainPc = "failed" =>
            UNCHANGED <<mainPc, yielded, transacts, advanced, lastBlock>>]_vars

\* the transaction of the second batch failed while a later batch was
\* already waiting in the queue
C6_Witness ==
    /\ failedIn = "transact"
    /\ Len(advanced) >= 1
    /\ Len(ing.queue) >= 2
    /\ ing.queue[2].status = "fulfilled"

\* the configured range and whether run() has got the database height
configuredRange ==
    IF optBlockRange = <<>> THEN [from |-> 0, to |-> Infinity]
    ELSE [from |-> optBlockRange[1].from, to |-> optBlockRange[1].to]
connected == mainPc \notin {"idle", "connect"}

\* C7: if the configured upper bound is below heightAtStart + 1, run() ends
\* cleanly without plan, archive request, handler call or db.advance;
\* otherwise every plan segment lies within
\* {max(heightAtStart + 1, configured.from), configured.to}, no query asks
\* for a height <= heightAtStart and no transaction starts at one.
C7_ResumeAtStartup ==
    connected =>
        IF configuredRange.to < heightAtStart + 1
        THEN /\ mainPc = "done"
             /\ ing = NewIngest
             /\ archiveHeight = -1
             /\ yielded = <<>> /\ transacts = <<>> /\ advanced = <<>>
        ELSE /\ \A i \in 1..Len(ing.batches) :
                   /\ ing.batches[i].range.from > heightAtStart
                   /\ ing.batches[i].range.from >= configuredRange.from
                   /\ rangeEnd(ing.batches[i].range) <= configuredRange.to
             /\ ing.nQueries > 0 =>
                   /\ ing.lastQuery.fromBlock > heightAtStart
                   /\ ing.lastQuery.fromBlock >= configuredRange.from
                   /\ ing.lastQuery.toBlock <= configuredRange.to
             /\ \A i \in 1..Len(transacts) :
                   transacts[i].span.from > heightAtStart

\* the database was at height 1, the configured range starts at 0, and the
\* first query started at height 2 and brought blocks to the handler
C7_Witness ==
    /\ heightAtStart = 1
    /\ configuredRange.from = 0
    /\ ing.nQueries = 1
    /\ ing.lastQuery.fromBlock = 2
    /\ transacts # <<>>

\* C8: as long as every status request was answered with zeros, no block
\* query is issued, nothing is yielded, handled or advanced, nothing fails,
\* and a driver that was started is polling the height or sleeping.
C8_EmptyArchive ==
    allZero =>
        /\ archiveHeight = -1
        /\ ing.nQueries = 0
        /\ yielded = <<>> /\ transacts = <<>> /\ advanced = <<>>
        /\ mainPc # "failed"
        /\ \A i \in 1..Len(ing.queue) : ing.queue[i].status = "pending"
        /\ mainPc = "await" => ing.fetchPc \in {"height", "sleep"}

\* the driver got zeros from the archive and sleeps before the next poll
C8_Witness ==
    /\ allZero
    /\ mainPc = "await"
    /\ ing.fetchPc = "sleep"
    /\ ing.fetchBatch.range.from = 0

\* C9: a block query is in flight only for the head segment and only with an
\* observed height >= its from; the driver waits (request or sleep) only
\* while archiveHeight < from; a height response either sends it to sleep
\* (height still too low) or issues the query at once; after the sleep it
\* polls again.
C9_WaitForHeight ==
    /\ [](/\ ing.fetchPc = "query" =>
               /\ ing.lastQuery.fromBlock = ing.fetchBatch.range.from
               /\ ing.fetchHeight >= ing.fetchBatch.range.from
               /\ ing.fetchHeight = archiveHeight
          /\ ing.fetchPc \in {"height", "sleep"} =>
               archiveHeight < ing.fetchBatch.range.from)
    /\ [][/\ (ing.fetchPc = "height" /\ ing'.fetchPc # "height") =>
               \/ ing'.fetchPc = "sleep"
               \/ ing'.fetchPc = "dead"
               \/ /\ ing'.fetchPc = "query"
                  /\ ing'.nQueries = ing.nQueries + 1
          /\ (ing.fetchPc = "sleep" /\ ing'.fetchPc # "sleep") =>
               ing'.fetchPc = "height"
          /\ ing'.nQueries # ing.nQueries =>
               ing.fetchPc \in {"idle", "height", "query"}]_vars

\* after a first query the driver sleeps, because the known height is below
\* the from of the next segment
C9_Witness ==
    /\ ing.fetchPc = "sleep"
    /\ ing.nQueries >= 1
    /\ archiveHeight >= 1
    /\ archiveHeight < ing.fetchBatch.range.from

\* C10: archiveHeight never decreases.
C10_HeightMonotonicity == [][archiveHeight' >= archiveHeight]_vars

\* the last status reported less than the height known before it
C10_Witness ==
    /\ lastResp.lower
    /\ archiveHeight >= 2
    /\ ing.nQueries >= 1

\* C11: a batch is resolved into the queue only with blocks sorted by height
\* that lie within the range of the queried plan segment and at or below the
\* archive height observed for the query; what is delivered to the consumer
\* is what was resolved, so a response with a block outside of these bounds
\* is never delivered.
C11_BlocksWithinBounds ==
    /\ [][pushed' # pushed =>
            LET batch == last(pushed')
                segment == ing.fetchBatch
                n == Len(batch.blocks)
            IN  /\ pushed' = Append(pushed, batch)
                /\ batch.range.from = segment.range.from
                /\ \A i \in 1..(n - 1) : batch.blocks[i] <= batch.blocks[i + 1]
                /\ n > 0 =>
                      /\ segment.range.from <= batch.blocks[1]
                      /\ batch.blocks[n] <= rangeEnd(segment.range)
                      /\ batch.blocks[n] <= ing.fetchHeight]_vars
    /\ [](/\ Len(yielded) <= Len(pushed)
          /\ \A i \in 1..Len(yielded) :
                /\ yielded[i] = pushed[i]
                /\ hasBlocks(yielded[i]) =>
                      yielded[i].range.from <= yielded[i].blocks[1])

\* a batch with two blocks, the first at the from of its segment, was
\* delivered, and a later response was rejected
C11_Witness ==
    /\ \E i \in 1..Len(yielded) :
          /\ Len(yielded[i].blocks) = 2
          /\ yielded[i].blocks[1] = yielded[i].range.from
          /\ yielded[i].blocks[1] < yielded[i].blocks[2]
    /\ \E i \in 1..Len(ing.queue) : ing.queue[i].status = "rejected"

\* the queue holds a rejected slot
rejectedSlots(q) == {i \in 1..Len(q) : q[i].status = "rejected"}

\* C12: a failure of the height wait, of the query or of the checks of the
\* response rejects the slot of the head segment, with the range of the
\* segment as context, and leaves the plan as it is; from then on no archive
\* request is outstanding or issued and the plan and the queue get nothing
\* new; getBlocks does not end cleanly; the consumer fails with the error
\* of the pipeline only when the rejected slot is the head of the queue, after
\* every batch resolved before it was yielded.
C12_ErrorPropagation ==
    /\ [][(rejectedSlots(ing.queue) = {} /\ rejectedSlots(ing'.queue) # {}) =>
            /\ rejectedSlots(ing'.queue) = {pendingIndex(ing.queue)}
            /\ ing'.queue[pendingIndex(ing.queue)].value.range =
                  ing.batches[1].range
            /\ \A i \in 1..(pendingIndex(ing.queue) - 1) :
                  ing'.queue[i] = ing.queue[i]
            /\ ing'.batches = ing.batches
            /\ pushed' = pushed]_vars
    /\ [][rejectedSlots(ing.queue) # {} =>
            /\ ing'.batches = ing.batches
            /\ ing'.nQueries = ing.nQueries
            /\ archiveHeight' = archiveHeight
            /\ pushed' = pushed
            /\ Len(ing'.queue) <= Len(ing.queue)
            /\ rejectedSlots(ing'.queue) # {}]_vars
    /\ [](rejectedSlots(ing.queue) # {} =>
            /\ ing.fetchPc \notin {"height", "sleep", "query"}
            /\ Len(ing.batches) > 0
            /\ mainPc # "done"
            /\ \A i \in 1..Len(ing.queue) :
                  i < Len(ing.queue) <=> ing.queue[i].status = "fulfilled")
    /\ [](failedIn = "ingest" =>
            /\ mainPc = "failed"
            /\ ing.queue[1].status = "rejected"
            /\ yielded = pushed)
    /\ [][(failedIn # "ingest" /\ failedIn' = "ingest") =>
            /\ mainPc = "await"
            /\ ing.queue[1].status = "rejected"
            /\ UNCHANGED <<yielded, transacts, advanced, lastBlock>>]_vars

\* the consumer has met the rejected slot after two batches that were
\* resolved before it
C12_Witness ==
    /\ failedIn = "ingest"
    /\ Len(yielded) >= 2
    /\ Len(advanced) = Len(yielded)
    /\ ing.queue[1].value.range.from > yielded[1].range.from

\* the slots of the queue that are settled with a batch
fulfilledSlots(q) == {i \in 1..Len(q) : q[i].status = "fulfilled"}

\* C13: when three resolved batches wait in the queue the driver has
\* stopped; a stopped driver has no request outstanding; while the consumer
\* does not pull, a stopped driver stays stopped and no query is issued with
\* three batches waiting; the driver is restarted only by a pull of the
\* consumer.
C13_Cancellation ==
    /\ [](Cardinality(fulfilledSlots(ing.queue)) >= 3 =>
            /\ ing.fetchLoopIsStopped
            /\ ing.fetchPc = "idle")
    /\ [](ing.fetchLoopIsStopped =>
            /\ ing.fetchPc = "idle"
            /\ fulfilledSlots(ing.queue) = 1..Len(ing.queue))
    /\ [][(ing.fetchLoopIsStopped /\ ~ing'.fetchLoopIsStopped) =>
            /\ mainPc = "next"
            /\ mainPc' # "next"
            /\ Len(ing'.queue) <= 3]_vars
    /\ [][(ing.fetchLoopIsStopped /\ mainPc # "next") =>
            /\ ing'.fetchLoopIsStopped
            /\ ing'.nQueries = ing.nQueries
            /\ ing'.queue = ing.queue
            /\ pushed' = pushed]_vars

\* the driver has stopped with three batches in the queue and segments left
\* in the plan, while the consumer is still busy with the first batch
C13_Witness ==
    /\ Cardinality(fulfilledSlots(ing.queue)) = 3
    /\ ing.fetchLoopIsStopped
    /\ Len(ing.batches) > 0
    /\ mainPc = "transact"
    /\ Len(yielded) = 1

\* the fetches in flight: slots whose promise has not settled
pendingSlots(q) == {i \in 1..Len(q) : q[i].status = "pending"}

\* C14: the queue never holds more than 3 entries, and never more than 3
\* fetches are in flight.
C14_QueueBound ==
    /\ Len(ing.queue) <= 3
    /\ Cardinality(pendingSlots(ing.queue)) <= 3

\* the queue is full: two resolved batches and a third fetch in flight
C14_Witness ==
    /\ Len(ing.queue) = 3
    /\ Cardinality(fulfilledSlots(ing.queue)) = 2
    /\ pendingSlots(ing.queue) = {3}
    /\ ing.fetchPc = "query"

\* C15: within one request the k-th call of onRetry reports k consecutive
\* errors and the backoff schedule[min(k - 1, 5)] of
\* [100, 500, 2000, 5000, 10000, 20000], which is 20000 from the 6th on;
\* the wait in progress after the k-th failure has that length.
C15_RetryBackoff ==
    LET schedule == <<100, 500, 2000, 5000, 10000, 20000>>
        waited(k) == schedule[(IF k - 1 < 5 THEN k - 1 ELSE 5) + 1]
    IN  /\ \A k \in 1..Len(onRetryCalls) :
              /\ onRetryCalls[k].errorsInRow = k
              /\ onRetryCalls[k].backoff = waited(k)
              /\ k >= 7 => onRetryCalls[k].backoff = 20000
        /\ client.pc = "wait" =>
              /\ client.errors = Len(onRetryCalls) + 1
              /\ client.timeout = waited(client.errors)

\* a request was retried seven times
C15_Witness ==
    /\ Len(onRetryCalls) = 7
    /\ onRetryCalls[5].backoff = 10000
    /\ onRetryCalls[6].backoff = 20000
    /\ onRetryCalls[7].backoff = 20000
    /\ client.pc = "fetch"

\* the classes of failed attempts the claim C16 names
retriedByContract(r) ==
    \/ r.class = "HttpError" /\ r.status \in {429, 502, 503}
    \/ r.class = "FetchError" /\ r.type \in {"request-timeout", "body-timeout"}
surfacedByContract(r) ==
    \/ r.class = "HttpError" /\ r.status \notin {429, 502, 503}
    \/ r.class = "FetchError" /\ r.type = "invalid-json"
    \/ r.class = "ArchiveResponseError"

\* C16: an attempt that fails with HTTP 429, 502 or 503 or with a transport
\* timeout leads to the backoff wait and a further attempt; an attempt that
\* fails with another HTTP status, with a body that is not JSON or with a
\* non-empty errors array settles the request with that error at once, with
\* no call of onRetry for it and no further attempt.
C16_RetryClassification ==
    /\ [][(client.pc = "fetch" /\ client'.pc # "fetch") =>
            LET r == client'.result
            IN  /\ retriedByContract(r) =>
                      /\ client'.pc = "wait"
                      /\ settled' = NotSettled
                /\ surfacedByContract(r) =>
                      /\ client'.pc = "idle"
                      /\ settled'.kind = "error"
                      /\ settled'.result = r
                      /\ onRetryCalls' = onRetryCalls
                      /\ client'.attempts = client.attempts]_vars
    /\ [][client.pc = "wait" => client'.pc \in {"wait", "fetch"}]_vars
    /\ [](settled.kind = "error" =>
            /\ client.pc = "idle"
            /\ Len(onRetryCalls) = client.attempts - 1
            /\ ~retriedByContract(settled.result))

\* a request was retried after HTTP 429 and HTTP 502 and then failed with
\* HTTP 500
C16_Witness ==
    /\ settled.kind = "error"
    /\ settled.result.class = "HttpError"
    /\ settled.result.status = 500
    /\ Len(onRetryCalls) = 2
    /\ lastRetry.err.status = 502

C18_GetHeight ==
    (settled.kind = "value" /\ client.method = "GET") =>
        LET status == settled.result.value
            height == IF status.parquetBlockNumber > status.dbMinBlockNumber
                      THEN status.dbMaxBlockNumber
                      ELSE status.parquetBlockNumber
        IN  /\ height = 0 => settled.height = -1
            /\ height # 0 => settled.height = height
            /\ status = ZeroStatus => settled.height = -1

\* getHeight() returned -1 for a status with parquetBlockNumber 2 >
\* dbMinBlockNumber 1 and dbMaxBlockNumber 0
C18_Witness ==
    /\ settled.kind = "value"
    /\ client.method = "GET"
    /\ settled.result.value =
          [parquetBlockNumber |-> 2, dbMaxBlockNumber |-> 0,
           dbMinBlockNumber |-> 1]
    /\ settled.height = -1

\* places of the items of a decoded block
logPlaces(items, k) ==
    {i \in 1..Len(items) :
        items[i].kind = "evmLog" /\ items[i].transactionIndex = k}
transactionPlaces(items, k) ==
    {i \in 1..Len(items) :
        items[i].kind = "transaction" /\ items[i].index = k}

\* a list of logs, transactions or items by the indexes that order them
byIndexes(l) ==
    [i \in 1..Len(l) |->
        IF "kind" \in DOMAIN l[i]
        THEN <<l[i].kind, l[i].transactionIndex, l[i].index>>
        ELSE IF "transactionIndex" \in DOMAIN l[i]
             THEN <<l[i].transactionIndex, l[i].index>>
             ELSE <<l[i].index>>]

\* C19: in the items of a decoded block every log item of transaction k
\* comes before the transaction item k and after every transaction item
\* with a smaller index; the block with logs (0,0), (0,1), (1,0) and
\* transactions 0, 1 decodes to log(0,0), log(0,1), tx(0), log(1,0), tx(1).
C19_ItemOrdering ==
    blockData.decoded =>
        LET items == blockData.items
        IN  /\ \A k \in 0..MaxTxIndex : \A i \in logPlaces(items, k) :
                  /\ \A j \in transactionPlaces(items, k) : i < j
                  /\ \A m \in 0..(k - 1) :
                        \A j \in transactionPlaces(items, m) : j < i
            /\ (/\ byIndexes(gatewayBlock.logs) = <<<<0, 0>>, <<0, 1>>, <<1, 0>>>>
                /\ byIndexes(gatewayBlock.transactions) = <<<<0>>, <<1>>>>)
               => byIndexes(items) =
                     <<<<"evmLog", 0, 0>>, <<"evmLog", 0, 1>>,
                       <<"transaction", -1, 0>>,
                       <<"evmLog", 1, 0>>, <<"transaction", -1, 1>>>>

\* sign of an integer, and the order of two pairs read lexicographically
sign(n) == IF n < 0 THEN -1 ELSE IF n > 0 THEN 1 ELSE 0
lexicographic(a1, a2, b1, b2) ==
    IF a1 # b1 THEN sign(a1 - b1) ELSE sign(a2 - b2)

\* the same logs and the same transactions, listed in some order
sameContent(b1, b2) ==
    /\ {b1.logs[i] : i \in 1..Len(b1.logs)} =
          {b2.logs[i] : i \in 1..Len(b2.logs)}
    /\ {b1.transactions[i] : i \in 1..Len(b1.transactions)} =
          {b2.transactions[i] : i \in 1..Len(b2.transactions)}

\* C20: over the items of a block the comparator of the sort is a total
\* order (two different items never compare equal, a before b means b after
\* a, and the order is transitive), two logs are ordered by
\* (transactionIndex, index) lexicographically and two transactions by
\* index; the items of the decoded block are the same for every order in
\* which the archive lists the same logs and transactions.
C20_ComparatorTotalOrder ==
    blockData.decoded =>
        LET items == {blockData.items[i] : i \in 1..Len(blockData.items)}
        IN  /\ \A a, b \in items :
                  /\ a # b => compareItems(a, b) # 0
                  /\ sign(compareItems(a, b)) = 0 - sign(compareItems(b, a))
                  /\ (a.kind = "evmLog" /\ b.kind = "evmLog") =>
                        sign(compareItems(a, b)) =
                           lexicographic(a.transactionIndex, a.index,
                                         b.transactionIndex, b.index)
                  /\ (a.kind = "transaction" /\ b.kind = "transaction") =>
                        sign(compareItems(a, b)) = sign(a.index - b.index)
            /\ \A a, b, c \in items :
                  (compareItems(a, b) <= 0 /\ compareItems(b, c) <= 0)
                     => compareItems(a, c) <= 0
            /\ \A other \in GatewayBlocks :
                  sameContent(other, gatewayBlock)
                     => mapGatewayBlock(other) = blockData.items

\* C21: a decoded block has one item per log and one per transaction of the
\* archive's block; the item pushed for a log carries that log (its index
\* and transactionIndex) and, if the block lists the transaction with the
\* log's transactionIndex, that transaction.
C21_OneItemPerLogAndTransaction ==
    blockData.decoded =>
        LET logs == gatewayBlock.logs
            transactions == gatewayBlock.transactions
            items == blockData.items
            pushedNow == blockData.pushedItems
        IN  /\ Len(items) = Len(logs) + Len(transactions)
            /\ Cardinality({i \in 1..Len(items) : items[i].kind = "evmLog"})
                  = Len(logs)
            /\ Cardinality({i \in 1..Len(items) :
                               items[i].kind = "transaction"})
                  = Len(transactions)
            /\ \A i \in 1..Len(logs) :
                  /\ pushedNow[i].kind = "evmLog"
                  /\ pushedNow[i].index = logs[i].index
                  /\ pushedNow[i].transactionIndex = logs[i].transactionIndex
                  /\ (\E j \in 1..Len(transactions) :
                         transactions[j].index = logs[i].transactionIndex)
                     => pushedNow[i].transaction = logs[i].transactionIndex
            /\ \A j \in 1..Len(transactions) :
                  /\ pushedNow[Len(logs) + j].kind = "transaction"
                  /\ pushedNow[Len(logs) + j].index = transactions[j].index

\* C22: the address of a transaction item is the `to` of the transaction,
\* or its `from` when it has no `to`; the address of a log item is the
\* address of the log.
C22_ItemAddress ==
    blockData.decoded =>
        LET logs == gatewayBlock.logs
            transactions == gatewayBlock.transactions
            pushedNow == blockData.pushedItems
        IN  /\ \A j \in 1..Len(transactions) :
                  pushedNow[Len(logs) + j].address =
                     (IF transactions[j].to # Absent
                      THEN transactions[j].to ELSE transactions[j].from)
            /\ \A i \in 1..Len(logs) :
                  (\A k \in 1..Len(logs) :
                      logs[k].index = logs[i].index => k = i)
                     => pushedNow[i].address = logs[i].address

\* C23: a.merge(b) has the log clauses of a followed by those of b and the
\* transaction clauses of a followed by those of b; merge is associative;
\* every clause of an operand is in the result.
C23_MergeConcatenates ==
    merged.done =>
        LET a == operands[1]
            b == operands[2]
        IN  /\ merged.ab.logs = a.logs \o b.logs
            /\ merged.ab.transactions = a.transactions \o b.transactions
            /\ merged.ab_c = merged.a_bc
            /\ \A r \in {a, b, operands[3]} :
                  /\ \A i \in 1..Len(r.logs) :
                        \E j \in 1..Len(merged.ab_c.logs) :
                           merged.ab_c.logs[j] = r.logs[i]
                  /\ \A i \in 1..Len(r.transactions) :
                        \E j \in 1..Len(merged.ab_c.transactions) :
                           merged.ab_c.transactions[j] = r.transactions[i]

\* a height of the model, or MaxHeight + 1 for the heights beyond, is in
\* the range r
inRange(h, r) == r.from <= h /\ (r.to = Undefined \/ h <= r.to)

\* C24: the plan of createBatches(blockRange) has non-empty, disjoint,
\* strictly increasing ranges; the heights they cover are the heights
\* covered by a registration and by blockRange; the request of a segment
\* has the clauses, in registration order, of exactly the registrations
\* whose range covers the segment.
C24_PlanCoverage ==
    planned.done =>
        LET plan == planned.batches
        IN  /\ \A k \in 1..Len(plan) :
                  /\ plan[k].range.from >= 0
                  /\ plan[k].range.to # Undefined
                        => plan[k].range.from <= plan[k].range.to
                  /\ k < Len(plan) =>
                        /\ plan[k].range.to # Undefined
                        /\ plan[k].range.to < plan[k + 1].range.from
            /\ \A h \in 0..(MaxHeight + 1) :
                  (\E k \in 1..Len(plan) : inRange(h, plan[k].range))
                     <=> /\ \E i \in 1..Len(procBatches) :
                               inRange(h, procBatches[i].range)
                         /\ inRange(h, planBound)
            /\ \A k \in 1..Len(plan) :
                  LET logs == plan[k].request.logs
                  IN  /\ plan[k].request.transactions = <<>>
                      /\ \A i, j \in 1..Len(logs) : i < j => logs[i] < logs[j]
                      /\ \A h \in 0..(MaxHeight + 1) :
                            inRange(h, plan[k].range) =>
                               {logs[i] : i \in 1..Len(logs)} =
                                  {i \in 1..Len(procBatches) :
                                      inRange(h, procBatches[i].range)}

\* two registrations that overlap in part, cut by the range to process:
\* the plan has a segment of one of them and a segment of both
C24_Witness ==
    /\ planned.done
    /\ Len(procBatches) = 2
    /\ planBound.to # Undefined
    /\ \E k \in 1..Len(planned.batches) :
          /\ k > 1
          /\ planned.batches[k].request.logs = <<1, 2>>
          /\ planned.batches[k].range.to = planBound.to
          /\ planned.batches[k - 1].request.logs = <<2>>
    /\ \E i \in 1..2 : procBatches[i].range.to = Undefined

\* the plan run() gives to the Ingest
planOfRun ==
    createBatches(procBatches,
                  effectiveRange(getWholeBlockRange(optBlockRange),
                                 heightAtStart))

finitePlan ==
    \A k \in 1..Len(planOfRun) : planOfRun[k].range.to # Undefined

\* C25: with a finite plan, an archive whose height reaches the end of the
\* plan and whose responses each cover a new height, run() ends cleanly; if
\* the plan is one segment and the first response covers it (nextBlock is
\* the height after its end), exactly one batch, with the range of the
\* segment, has been yielded when the generator ends.
C25_Termination ==
    /\ (connected /\ finitePlan) ~> (mainPc = "done")
    /\ [](/\ mainPc = "done"
          /\ Len(planOfRun) = 1
          /\ Len(pushed) >= 1
          /\ pushed[1].range.to = planOfRun[1].range.to
          => /\ Len(yielded) = 1
             /\ yielded[1].range = planOfRun[1].range)

\* run() has ended after the one batch of a plan of one segment of two
\* heights, below the archive's height, was yielded
C25_Witness ==
    /\ mainPc = "done"
    /\ finitePlan
    /\ Len(planOfRun) = 1
    /\ planOfRun[1].range.from < planOfRun[1].range.to
    /\ planOfRun[1].range.to < archiveHeight
    /\ Len(yielded) = 1
    /\ yielded[1].range = planOfRun[1].range
    /\ Len(yielded[1].blocks) = 2

\* C26: when a block query succeeds (its batch is resolved into the queue),
\* archiveHeight is afterwards at least the height of the response's
\* status; a response whose status has a height below the height observed
\* when the query was built makes the batch fail (its promise is rejected).
C26_ResponseHeight ==
    [][ing.fetchPc = "query" =>
          \A status \in Statuses :
             \A nextBlock \in NextBlocks(ing.lastQuery) :
                \A data \in DataOptions(ing.lastQuery, nextBlock) :
                   QueryResponse(status, data, nextBlock) =>
                      /\ pushed' # pushed
                            => archiveHeight' >= statusToHeight(status)
                      /\ statusToHeight(status) < ing.fetchHeight
                            => /\ pushed' = pushed
                               /\ ing'.fetchPc = "dead"]_vars

\* C27: a block query in flight asks for the heights from the head
\* segment's from to the smaller of the observed archive height and the
\* end of the segment's range, and fromBlock <= toBlock; the promise of a
\* segment is rejected only by a failed height request or by a block query
\* that fails or whose response fails an assertion, never by the assertion
\* of buildBatchQuery.
C27_QueryBounds ==
    /\ [](ing.fetchPc = "query" =>
             LET head == ing.batches[1]
                 q == ing.lastQuery
             IN  /\ q.fromBlock = head.range.from
                 /\ q.toBlock = IF head.range.to = Undefined
                                   \/ archiveHeight < head.range.to
                                THEN archiveHeight ELSE head.range.to
                 /\ q.fromBlock <= q.toBlock)
    /\ [][ing.fetchPc # "dead" /\ ing'.fetchPc = "dead" =>
             \/ HeightFail
             \/ ing.fetchPc = "query" /\ pushed' = pushed]_vars

\* the query for the re-queued remainder of an open-ended segment, up to
\* the archive's height
C27_Witness ==
    /\ ing.fetchPc = "query"
    /\ ing.batches[1].range.to = Undefined
    /\ Len(pushed) > 0
    /\ ing.lastQuery.fromBlock = pushed[Len(pushed)].range.to + 1
    /\ ing.lastQuery.fromBlock > 0
    /\ ing.lastQuery.fromBlock < ing.lastQuery.toBlock
    /\ ing.lastQuery.toBlock = archiveHeight

\* a fetchLoop that has started and has not returned
driverActive == ing.fetchPc \in {"height", "sleep", "query"}

\* C28: the assertion at the entry of fetchLoop never fails, and while the
\* guard fetchLoopIsStopped is true no fetchLoop is running, so that the
\* fetchLoop getBlocks starts is the only one.
C28_SingleDriver ==
    /\ [](~ing.entryAssertFailed)
    /\ [](ing.fetchLoopIsStopped => ~driverActive)
    /\ [][(driverActive /\ mainPc = "next" /\ mainPc' # "next") =>
             /\ ~ing.fetchLoopIsStopped
             /\ ing'.nQueries = ing.nQueries
             /\ ing'.fetchPc = ing.fetchPc
             /\ Len(ing'.queue) <= Len(ing.queue)]_vars

\* getBlocks is pulled a second time while fetchLoop waits for a response
C28_Witness ==
    /\ mainPc = "await"
    /\ Len(yielded) >= 1
    /\ ~genAtYield
    /\ ing.fetchPc = "query"
    /\ Len(ing.queue) >= 2

\* the number of blocks of height h in the chunks of data
blocksAt(data, h) ==
    IF data = <<>> THEN 0
    ELSE Cardinality({i \in 1..Len(data[1]) : data[1][i] = h})
         + Cardinality({i \in 1..Len(data[2]) : data[2][i] = h})

C30_PlanOwnership ==
    [][mainPc # "connect" =>
          /\ ing'.batches # ing.batches =>
                /\ ing.fetchPc = "query"
                /\ Len(pushed') = Len(pushed) + 1
                /\ mainPc' = mainPc
                /\ genAtYield' = genAtYield
                /\ yielded' = yielded
          /\ ing'.options = ing.options]_vars

\* a segment has been removed from the plan and the head of the plan is a
\* remainder, which the list given to the constructor does not contain
C30_Witness ==
    /\ ing.batches # <<>>
    /\ Len(ing.batches) < Len(ing.options.batches)
    /\ \A k \in 1..Len(ing.options.batches) :
          ing.options.batches[k] # ing.batches[1]

\* C31: only the last entry of the queue can be pending, every entry
\* before it is resolved, and when fetchLoop sends a block query every
\* earlier entry of the queue is resolved: no two queries are outstanding.
C31_OneQueryOutstanding ==
    /\ [](\A i \in 1..Len(ing.queue) :
             /\ ing.queue[i].status = "pending" => i = Len(ing.queue)
             /\ i < Len(ing.queue) => ing.queue[i].status = "fulfilled")
    /\ [](ing.fetchPc = "query" =>
             pendingSlots(ing.queue) = {Len(ing.queue)})
    /\ [][ing'.nQueries = ing.nQueries + 1 =>
             /\ pendingSlots(ing'.queue) = {Len(ing'.queue)}
             /\ fulfilledSlots(ing'.queue) = 1..(Len(ing'.queue) - 1)]_vars

\* a query is outstanding for the third entry of the queue while the two
\* entries before it are resolved and not yet consumed
C31_Witness ==
    /\ ing.fetchPc = "query"
    /\ Len(ing.queue) = 3
    /\ fulfilledSlots(ing.queue) = {1, 2}

\* C32: assertNotNull(this.queue[0]) never fails; while getBlocks awaits
\* the head of the queue the queue has an entry; and a pull that leaves
\* getBlocks awaiting finds, after the shift, either a running fetchLoop
\* whose pending entry is in the queue, or entries resolved earlier, or
\* starts a fetchLoop that pushes an entry before the await.
C32_QueueHeadPresent ==
    /\ [](failedIn # "assertNotNull")
    /\ [](mainPc = "await" => Len(ing.queue) >= 1)
    /\ [][(mainPc = "next" /\ mainPc' = "await") =>
             LET shifted == IF genAtYield THEN Len(ing.queue) - 1
                            ELSE Len(ing.queue)
             IN  \/ driverActive /\ pendingSlots(ing'.queue) # {}
                                 /\ ing'.queue = SubSeq(ing.queue,
                                                        Len(ing.queue) - shifted + 1,
                                                        Len(ing.queue))
                 \/ ~driverActive /\ shifted >= 1
                                  /\ Len(ing'.queue) >= shifted
                 \/ /\ ~driverActive
                    /\ shifted = 0
                    /\ ing.fetchLoopIsStopped
                    /\ Len(ing'.queue) = 1]_vars

\* after the consumer has shifted the only entry of the queue, with
\* segments left in the plan and fetchLoop stopped, the pull has started a
\* fetchLoop and getBlocks awaits the entry it pushed
C32_Witness ==
    /\ mainPc = "await"
    /\ Len(yielded) >= 3
    /\ Len(ing.queue) = 1
    /\ pendingSlots(ing.queue) = {1}
    /\ Len(pushed) = Len(yielded)

\* C33: a step in which a block response resolves a batch removes the head
\* segment of the plan or moves its from forward; a query is never sent for
\* the fromBlock of the query before it; every yielded batch has
\* range.from <= range.to.
C33_FetchAdvancesPlan ==
    /\ [][Len(pushed') = Len(pushed) + 1 =>
             \/ Len(ing'.batches) = Len(ing.batches) - 1
             \/ /\ Len(ing'.batches) = Len(ing.batches)
                /\ ing'.batches[1].range.from > ing.batches[1].range.from]_vars
    /\ [][(ing'.nQueries = ing.nQueries + 1 /\ ing.nQueries >= 1) =>
             ing'.lastQuery.fromBlock > ing.lastQuery.fromBlock]_vars
    /\ [](\A i \in 1..Len(yielded) :
             yielded[i].range.from <= yielded[i].range.to)

\* the segment, in the list given to the constructor, that batch i of the
\* queued batches was fetched for
segmentOf(i) ==
    CHOOSE k \in 1..Len(ing.options.batches) :
       inRange(pushed[i].range.from, ing.options.batches[k].range)

\* C34: the ranges of the batches queued for a plan segment tile it: the
\* first starts at the segment's from, each following one starts right
\* after the end of the one before, none ends beyond the segment's to, the
\* last ends at the segment's to, and what is left of the segment is the
\* head of the plan.
C34_BatchesTileSegment ==
    LET plan == ing.options.batches
    IN  \A i \in 1..Len(pushed) :
           LET b == pushed[i].range
               k == segmentOf(i)
               seg == plan[k].range
               first == i = 1 \/ segmentOf(i - 1) # k
           IN  /\ \E n \in 1..Len(plan) : inRange(b.from, plan[n].range)
               /\ first => b.from = seg.from
               /\ b.to # Undefined
               /\ b.to <= rangeEnd(seg)
               /\ i < Len(pushed) =>
                     IF pushed[i + 1].range.from = b.to + 1 /\ b.to # seg.to
                     THEN segmentOf(i + 1) = k
                     ELSE /\ b.to = seg.to
                          /\ k < Len(plan)
                          /\ segmentOf(i + 1) = k + 1
                          /\ pushed[i + 1].range.from = plan[k + 1].range.from
               /\ i = Len(pushed) =>
                     IF b.to = seg.to
                     THEN ing.batches = SubSeq(plan, k + 1, Len(plan))
                     ELSE /\ ing.batches # <<>>
                          /\ ing.batches[1].range =
                                [from |-> b.to + 1, to |-> seg.to]
                          /\ Tail(ing.batches) = SubSeq(plan, k + 1, Len(plan))

\* a closed segment was fetched in two batches, neither of them empty, and
\* has left the plan
C34_Witness ==
    /\ Len(pushed) = 2
    /\ segmentOf(1) = segmentOf(2)
    /\ pushed[1].range.from <= pushed[1].range.to
    /\ pushed[2].range.from = pushed[1].range.to + 1
    /\ pushed[2].range.from < pushed[2].range.to
    /\ pushed[2].range.to = ing.options.batches[segmentOf(2)].range.to
    /\ ing.batches = <<>>

\* C35: when run() has ended cleanly for a plan that is not empty and whose
\* last segment is closed, the last height passed to db.advance is the to
\* of the last segment of the plan.
C35_FinalCheckpoint ==
    LET plan == ing.options.batches
    IN  (/\ mainPc = "done"
         /\ plan # <<>>
         /\ last(plan).range.to # Undefined)
           => /\ advanced # <<>>
              /\ last(advanced) = last(plan).range.to

\* the heights of the blocks of batch i of the yielded batches
heightsOf(i) == {yielded[i].blocks[n] : n \in 1..Len(yielded[i].blocks)}

\* C36: the height passed to db.advance for a batch is at least the height
\* of every block of that batch and below the height of every block of
\* every later batch, and no height is in two yielded batches.
C36_CheckpointMatchesData ==
    /\ \A i \in 1..Len(advanced) :
          /\ \A h \in heightsOf(i) : advanced[i] >= h
          /\ \A j \in (i + 1)..Len(yielded) :
                \A h \in heightsOf(j) : advanced[i] < h
    /\ \A i, j \in 1..Len(yielded) :
          i # j => heightsOf(i) \cap heightsOf(j) = {}

\* C37: a request settles only by returning a successful response or by
\* throwing an error that is not retryable; a retryable failure, at any
\* count of errors, leaves the request unsettled and waiting for its next
\* attempt, and a further attempt is sent only after a retryable failure
\* of a request that has not settled.
C37_RetriesUnbounded ==
    /\ [](settled.kind = "value" => settled.result.class = "value")
    /\ [](settled.kind = "error" =>
              /\ isError(settled.result)
              /\ ~isRetryableError(settled.result))
    /\ [](client.pc = "wait" =>
              /\ settled = NotSettled
              /\ isRetryableError(client.result))
    /\ [][\A a \in Attempts :
            (FetchSettled(a) /\ isRetryableError(performFetch(a)))
               => /\ settled' = NotSettled
                  /\ client'.pc = "wait"
                  /\ client'.errors = client.errors + 1]_vars
    /\ [][(client'.requests = client.requests
            /\ client'.attempts = client.attempts + 1)
              => /\ settled = NotSettled
                 /\ settled' = NotSettled
                 /\ isRetryableError(client.result)]_vars

\* a request still unsettled after more failures than the backoff schedule
\* has entries, about to send its next attempt
C37_Witness ==
    /\ client.pc = "fetch"
    /\ client.errors > Len(backoff)
    /\ client.attempts = client.errors + 1
    /\ settled = NotSettled

\* some configuration call
ConfigCall ==
    \/ \E range \in LogRanges : AddLog(range)
    \/ \E port \in PrometheusPorts : SetPrometheusPort(port)
    \/ \E range \in BlockRangeOptions : SetBlockRange(range)
    \/ \E size \in BatchSizes : SetBatchSize(size)
    \/ \E src \in DataSources : SetDataSource(src)

\* C38: once run() has been called, every configuration call (addLog,
\* setBlockRange, setBatchSize, setDataSource, setPrometheusPort) throws
\* 'Settings modifications are not allowed after start of processing' and
\* leaves the registered batches and the options as they were; before run()
\* no call throws that error.
C38_SettingsFrozen ==
    /\ [][(running /\ ConfigCall)
            => /\ lastCall'.error = SettingsError
               /\ procBatches' = procBatches
               /\ optBlockRange' = optBlockRange
               /\ settings' = settings]_vars
    /\ [][(~running /\ ConfigCall) => lastCall'.error = "none"]_vars
    /\ [](~running => lastCall.error = "none")
    /\ [][running => /\ running'
                     /\ procBatches' = procBatches
                     /\ optBlockRange' = optBlockRange
                     /\ settings' = settings]_vars

\* a configured processor that runs, and a call of addLog that threw
C38_Witness ==
    /\ running
    /\ lastCall = [op |-> "addLog", error |-> SettingsError]
    /\ Len(procBatches) = 1
    /\ optBlockRange # <<>>
    /\ settings.batchSize = <<2>>
    /\ settings.src # <<>>

====
